---- MODULE Spec2Model ----
(***************************************************************************)
(* Clinical-trials tool server: the seventeen tool handlers of             *)
(* src/src/index.ts (class ClinicalTrialsServer), the MCP request handler  *)
(* that dispatches to them, and the HTTP dispatcher handleToolCall of      *)
(* src/unnamed/part_000 that wraps their results in a response envelope.   *)
(*                                                                         *)
(* One tool call is in progress at a time.  A call runs from the           *)
(* dispatcher's switch through the handler's synchronous prefix (argument  *)
(* checks, query composition, axios.get), suspends at the await, resumes   *)
(* when the upstream answers, and ends with what the dispatcher hands      *)
(* back to its caller.                                                     *)
(***************************************************************************)
EXTENDS Integers, Sequences, FiniteSets, TLC

VARIABLES
    pc,        \* "idle" | "await" | "done": where the call in progress stands
    entry,     \* "mcp" | "http": the dispatcher the call came in through
    tool,      \* request.params.name / toolName
    args,      \* the argument bag: argument name -> JS value
    now,       \* the clock reading new Date() returns during this call
    sent,      \* upstream requests of this call, in order: [params, st, got]
    ref,       \* referenceStudy of get_similar_studies, study of get_study_details
    out,       \* what the dispatcher handed back (NoOutcome while running)
    cand,      \* identifier validator: the candidate string, as characters
    verdict,   \* identifier validator: "none" | "valid" | "invalid"
    view,      \* a derived view on its own: arguments, response, result
    excl,      \* the exclusion filter on its own: phrase, page, filtered
    calls,     \* concurrent calls: call slot -> that call's frame
    date,      \* the timeline query on its own: clock, arguments, query
    proj,      \* a projection on its own: tool, arguments, page, output
    mcpServer, \* the one ClinicalTrialsServer instance every call runs on
    process    \* "running" | "closing" | "exited": the Node process

\* The variables of the specifications that run one part on its own.
partVars == <<view, excl, calls, date, proj, mcpServer, process>>

vars ==
    <<pc, entry, tool, args, now, sent, ref, out, cand, verdict, partVars>>

callVars == <<pc, entry, tool, args, now, sent, ref, out>>

nctVars == <<cand, verdict>>

(***************************************************************************)
(* Bounds of the model.                                                    *)
(***************************************************************************)
\* At most this many arguments of a bag carry a value; the others are absent.
MaxPresent == 2

\* An upstream page holds at most this many records.
MaxPage == 2

\* new Date() falls on one of the days 0..MaxDay, or one day later where the
\* hour of the call is drawn too.
MaxDay == 1

\* The identifier validator is tried on strings of at most this many characters.
MaxIdLen == 12

\* A derived view is run on responses of at most this many records.
MaxViewPage == 2

\* The exclusion filter is run on pages of at most this many records.
MaxExclPage == 2

\* The exclusion filter is run on phrases of at most this many characters.
MaxPhraseLen == 3

\* A projection is run on pages of at most this many records.
MaxProjPage == 2

\* At most this many tool calls are in progress at once.
MaxCalls == 2

(***************************************************************************)
(* JavaScript values.  Every value is a record of the same shape so that   *)
(* any two of them can be compared: t is the type tag, s the string of a   *)
(* string value, n the number of a number (or the day of a date string,    *)
(* or 1/0 for true/false).                                                 *)
(***************************************************************************)
Undef == [t |-> "undefined", s |-> "", n |-> 0]

Null == [t |-> "null", s |-> "", n |-> 0]

Str(x) == [t |-> "string", s |-> x, n |-> 0]

Num(k) == [t |-> "number", s |-> "", n |-> k]

Bool(b) == [t |-> "boolean", s |-> "", n |-> IF b THEN 1 ELSE 0]

\* A date string YYYY-MM-DD: the string of day d, counted from the epoch.
DateStr(d) == [t |-> "string", s |-> "YYYY-MM-DD", n |-> d]

\* What new Date() reads in a call: the instant, in hours since the epoch,
\* and the offset of the process's time zone from UTC, in hours, at the
\* local time of the call and at the same local time 30 days later (the two
\* differ when daylight saving time starts or ends in between).
Clock(utc, offset, offsetLater) == [utc |-> utc, offset |-> offset, offsetLater |-> offsetLater]

\* The clock of a call that has not read it.
NoClock == Clock(0, 0, 0)

\* JS truthiness, as the handlers' `if (args?.x)` and `a || b` use it.
Truthy(v) ==
    CASE v.t = "undefined" -> FALSE
      [] v.t = "null" -> FALSE
      [] v.t = "string" -> v.s # ""
      [] v.t = "number" -> v.n # 0
      [] v.t = "boolean" -> v.n = 1

\* a || b
OrElse(a, b) == IF Truthy(a) THEN a ELSE b

\* params[k] = v
Put(p, k, v) == [x \in (DOMAIN p) \cup {k} |-> IF x = k THEN v ELSE p[x]]

\* if (v) params[k] = v
PutIf(p, k, v) == IF Truthy(v) THEN Put(p, k, v) ELSE p

\* args?.name: undefined for a name the bag does not carry.
Arg(a, name) == IF name \in DOMAIN a THEN a[name] ELSE Undef

\* list?.[0]: undefined when the list is missing or empty.
FirstOf(list) == IF list = <<>> THEN Undef ELSE Str(list[1])

(***************************************************************************)
(* The tools and the arguments each handler reads.                         *)
(***************************************************************************)
ToolNames ==
    { "search_studies", "get_study_details", "search_by_location",
      "search_by_condition", "get_trial_statistics", "search_by_sponsor",
      "search_by_intervention", "get_recruiting_studies",
      "search_by_date_range", "get_studies_with_results",
      "search_rare_diseases", "get_pediatric_studies", "get_similar_studies",
      "search_by_primary_outcome", "search_by_eligibility_criteria",
      "get_study_timeline", "search_international_studies" }

\* A name outside the switch of either dispatcher.
UnknownTool == "no_such_tool"

\* args.filters.condition and its siblings are written "filters.condition".
ArgNames(t) ==
    CASE t = "search_studies" ->
           {"query", "condition", "intervention", "location", "phase",
            "status", "sex", "age", "pageSize"}
      [] t = "get_study_details" -> {"nctId"}
      [] t = "search_by_location" ->
           {"country", "state", "city", "facilityName", "distance", "pageSize"}
      [] t = "search_by_condition" ->
           {"condition", "phase", "recruitmentStatus", "pageSize"}
      [] t = "get_trial_statistics" ->
           {"groupBy", "filters.condition", "filters.phase", "filters.status"}
      [] t = "search_by_sponsor" -> {"sponsor", "sponsorType", "pageSize"}
      [] t = "search_by_intervention" ->
           {"intervention", "interventionType", "phase", "pageSize"}
      [] t = "get_recruiting_studies" ->
           {"condition", "location", "ageGroup", "pageSize"}
      [] t = "search_by_date_range" ->
           {"startDateFrom", "startDateTo", "completionDateFrom",
            "completionDateTo", "condition", "pageSize"}
      [] t = "get_studies_with_results" ->
           {"condition", "intervention", "completedAfter", "pageSize"}
      [] t = "search_rare_diseases" ->
           {"rareDisease", "recruitmentStatus", "pageSize"}
      [] t = "get_pediatric_studies" ->
           {"condition", "ageRange", "recruitmentStatus", "pageSize"}
      [] t = "get_similar_studies" -> {"nctId", "similarityType", "pageSize"}
      [] t = "search_by_primary_outcome" ->
           {"outcome", "condition", "phase", "pageSize"}
      [] t = "search_by_eligibility_criteria" ->
           {"minAge", "maxAge", "sex", "healthyVolunteers", "condition",
            "inclusionKeywords", "exclusionKeywords", "pageSize"}
      [] t = "get_study_timeline" ->
           {"condition", "sponsor", "phase", "timelineType", "pageSize"}
      [] t = "search_international_studies" ->
           {"condition", "phase", "includeCountry", "excludeCountry",
            "minCountries", "pageSize"}
      [] OTHER -> {}

\* The largest pageSize each tool's input schema declares.
PageSizeMax(t) ==
    IF t \in {"get_recruiting_studies", "get_pediatric_studies",
              "get_study_timeline", "get_similar_studies"}
    THEN 50 ELSE 100

\* The tools whose handler reads args.pageSize.
TakesPageSize(t) == "pageSize" \in ArgNames(t)

(***************************************************************************)
(* The identifier check /^NCT\d{8}$/.test(args.nctId).                     *)
(***************************************************************************)
Digits == {"0", "1", "2", "3", "4", "5", "6", "7", "8", "9"}

\* The regular expression, one character class per position.
NctIdPattern ==
    <<{"N"}, {"C"}, {"T"},
      Digits, Digits, Digits, Digits, Digits, Digits, Digits, Digits>>

\* The same expression without its closing anchor: /^NCT\d{8}/.
NctIdTestNoEndAnchor(chars) ==
    /\ Len(chars) >= Len(NctIdPattern)
    /\ \A i \in 1..Len(NctIdPattern) : chars[i] \in NctIdPattern[i]

\* RegExp.test on the characters of a string: ^ and $ anchor the match to
\* the whole input (no m flag), each class consumes exactly one character.
NctIdTest(chars) ==
    /\ Len(chars) = Len(NctIdPattern)
    /\ \A i \in 1..Len(NctIdPattern) : chars[i] \in NctIdPattern[i]

\* The identifier strings the tool calls of the model carry.
NctIdStrings ==
    { "NCT12345678", "NCT00000000", "NCT1234567", "NCT123456789",
      "nct12345678", "NCT1234567X", " NCT12345678" }

\* The characters of each of those strings.
CharsOf(s) ==
    CASE s = "NCT12345678" -> <<"N","C","T","1","2","3","4","5","6","7","8">>
      [] s = "NCT00000000" -> <<"N","C","T","0","0","0","0","0","0","0","0">>
      [] s = "NCT1234567" -> <<"N","C","T","1","2","3","4","5","6","7">>
      [] s = "NCT123456789" ->
           <<"N","C","T","1","2","3","4","5","6","7","8","9">>
      [] s = "nct12345678" -> <<"n","c","t","1","2","3","4","5","6","7","8">>
      [] s = "NCT1234567X" -> <<"N","C","T","1","2","3","4","5","6","7","X">>
      [] s = " NCT12345678" ->
           <<" ","N","C","T","1","2","3","4","5","6","7","8">>
      [] s = "a" -> <<"a">>
      [] s = "A b" -> <<"A"," ","b">>
      [] s = "b " -> <<"b"," ">>
      [] s = " " -> <<" ">>
      [] s = "..." -> <<".", ".", ".">>
      [] s = "undefined" -> <<"u","n","d","e","f","i","n","e","d">>
      [] s = "Not available" ->
           <<"N","o","t"," ","a","v","a","i","l","a","b","l","e">>

\* !args?.nctId || !/^NCT\d{8}$/.test(args.nctId)
NctIdRejected(a) ==
    IF ~Truthy(Arg(a, "nctId")) THEN TRUE
    ELSE ~NctIdTest(CharsOf(Arg(a, "nctId").s))

(***************************************************************************)
(* Query composition: the params object each handler builds before its    *)
(* axios.get('/studies', { params }).                                      *)
(***************************************************************************)
\* { format: 'json', pageSize: args?.pageSize || 10 }
BaseParams(a) ==
    [k \in {"format", "pageSize"} |->
        IF k = "format" THEN Str("json")
        ELSE OrElse(Arg(a, "pageSize"), Num(10))]

handleSearchStudiesParams(a) ==
    LET p0 == BaseParams(a)
        p1 == PutIf(p0, "query.term", Arg(a, "query"))
        p2 == PutIf(p1, "query.cond", Arg(a, "condition"))
        p3 == PutIf(p2, "query.intr", Arg(a, "intervention"))
        p4 == PutIf(p3, "query.locn", Arg(a, "location"))
        p5 == PutIf(p4, "filter.phase", Arg(a, "phase"))
        p6 == PutIf(p5, "filter.overallStatus", Arg(a, "status"))
        p7 == PutIf(p6, "filter.sex", Arg(a, "sex"))
    IN  PutIf(p7, "filter.stdAge", Arg(a, "age"))

\* { format, 'query.term': nctId, 'filter.ids': nctId, pageSize: 1 }
handleGetStudyDetailsParams(a) ==
    [k \in {"format", "query.term", "filter.ids", "pageSize"} |->
        CASE k = "format" -> Str("json")
          [] k = "pageSize" -> Num(1)
          [] OTHER -> Arg(a, "nctId")]

\* The same step with the part put in front of what was collected so far.
AppendLocationInFront(q, part) ==
    IF ~Truthy(part) THEN q
    ELSE IF q = "" THEN part.s ELSE part.s \o ", " \o q

\* locationQuery += (locationQuery ? ', ' : '') + part, for a truthy part.
AppendLocation(q, part) ==
    IF ~Truthy(part) THEN q
    ELSE IF q = "" THEN part.s ELSE q \o ", " \o part.s

locationQuery(a) ==
    AppendLocation(
        AppendLocation(
            AppendLocation(
                AppendLocation("", Arg(a, "country")),
                Arg(a, "state")),
            Arg(a, "city")),
        Arg(a, "facilityName"))

handleSearchByLocationParams(a) ==
    LET p0 == BaseParams(a)
        p1 == PutIf(p0, "query.locn", Str(locationQuery(a)))
    IN  IF Truthy(Arg(a, "distance")) /\ Truthy(Arg(a, "city"))
        THEN Put(p1, "filter.distance", Arg(a, "distance"))
        ELSE p1

handleSearchByConditionParams(a) ==
    LET p0 == Put(BaseParams(a), "query.cond", Arg(a, "condition"))
        p1 == PutIf(p0, "filter.phase", Arg(a, "phase"))
    IN  PutIf(p1, "filter.overallStatus", Arg(a, "recruitmentStatus"))

\* { format: 'json', pageSize: 100 } plus args.filters' three fields.
handleGetTrialStatisticsParams(a) ==
    LET p0 == [k \in {"format", "pageSize"} |->
                  IF k = "format" THEN Str("json") ELSE Num(100)]
        p1 == PutIf(p0, "query.cond", Arg(a, "filters.condition"))
        p2 == PutIf(p1, "filter.phase", Arg(a, "filters.phase"))
    IN  PutIf(p2, "filter.overallStatus", Arg(a, "filters.status"))

handleSearchBySponsorParams(a) ==
    LET p0 == Put(BaseParams(a), "query.spons", Arg(a, "sponsor"))
    IN  PutIf(p0, "filter.leadSponsorClass", Arg(a, "sponsorType"))

handleSearchByInterventionParams(a) ==
    LET p0 == Put(BaseParams(a), "query.intr", Arg(a, "intervention"))
        p1 == PutIf(p0, "filter.interventionType", Arg(a, "interventionType"))
    IN  PutIf(p1, "filter.phase", Arg(a, "phase"))

handleGetRecruitingStudiesParams(a) ==
    LET p0 == Put(BaseParams(a), "filter.overallStatus", Str("RECRUITING"))
        p1 == PutIf(p0, "query.cond", Arg(a, "condition"))
        p2 == PutIf(p1, "query.locn", Arg(a, "location"))
    IN  PutIf(p2, "filter.stdAge", Arg(a, "ageGroup"))

handleSearchByDateRangeParams(a) ==
    LET p0 == BaseParams(a)
        p1 == PutIf(p0, "filter.studyStartDateFrom", Arg(a, "startDateFrom"))
        p2 == PutIf(p1, "filter.studyStartDateTo", Arg(a, "startDateTo"))
        p3 == PutIf(p2, "filter.primaryCompletionDateFrom",
                    Arg(a, "completionDateFrom"))
        p4 == PutIf(p3, "filter.primaryCompletionDateTo",
                    Arg(a, "completionDateTo"))
    IN  PutIf(p4, "query.cond", Arg(a, "condition"))

handleGetStudiesWithResultsParams(a) ==
    LET p0 == Put(Put(BaseParams(a), "filter.overallStatus", Str("COMPLETED")),
                  "filter.hasResults", Bool(TRUE))
        p1 == PutIf(p0, "query.cond", Arg(a, "condition"))
        p2 == PutIf(p1, "query.intr", Arg(a, "intervention"))
    IN  PutIf(p2, "filter.primaryCompletionDateFrom", Arg(a, "completedAfter"))

\* query.term is the template `${args.rareDisease} OR orphan OR rare`.
handleSearchRareDiseasesParams(a) ==
    LET p0 == Put(BaseParams(a), "query.cond", Arg(a, "rareDisease"))
        p1 == PutIf(p0, "filter.overallStatus", Arg(a, "recruitmentStatus"))
    IN  Put(p1, "query.term",
            Str(Arg(a, "rareDisease").s \o " OR orphan OR rare"))

\* The same switch with the bounds of each pair exchanged.
PediatricAgePairExchanged(p, ageRange) ==
    CASE ageRange = Str("INFANT") ->
           Put(Put(p, "filter.minimumAge", Str("2 Years")),
               "filter.maximumAge", Str("0 Years"))
      [] ageRange = Str("CHILD") ->
           Put(Put(p, "filter.minimumAge", Str("12 Years")),
               "filter.maximumAge", Str("2 Years"))
      [] ageRange = Str("ADOLESCENT") ->
           Put(Put(p, "filter.minimumAge", Str("18 Years")),
               "filter.maximumAge", Str("12 Years"))
      [] OTHER -> p

\* The switch on args.ageRange: three cases, no default.
PediatricAgePair(p, ageRange) ==
    CASE ageRange = Str("INFANT") ->
           Put(Put(p, "filter.minimumAge", Str("0 Years")),
               "filter.maximumAge", Str("2 Years"))
      [] ageRange = Str("CHILD") ->
           Put(Put(p, "filter.minimumAge", Str("2 Years")),
               "filter.maximumAge", Str("12 Years"))
      [] ageRange = Str("ADOLESCENT") ->
           Put(Put(p, "filter.minimumAge", Str("12 Years")),
               "filter.maximumAge", Str("18 Years"))
      [] OTHER -> p

handleGetPediatricStudiesParams(a) ==
    LET p0 == Put(BaseParams(a), "filter.stdAge", Str("CHILD"))
        p1 == PutIf(p0, "query.cond", Arg(a, "condition"))
        p2 == IF Truthy(Arg(a, "ageRange"))
              THEN PediatricAgePair(p1, Arg(a, "ageRange")) ELSE p1
    IN  PutIf(p2, "filter.overallStatus", Arg(a, "recruitmentStatus"))

\* The reference lookup: { format, 'query.term': nctId, pageSize: 1 }
handleGetSimilarStudiesReferenceParams(a) ==
    [k \in {"format", "query.term", "pageSize"} |->
        CASE k = "format" -> Str("json")
          [] k = "pageSize" -> Num(1)
          [] OTHER -> Arg(a, "nctId")]

\* A similarity type without the 'CONDITION' default.
similarityTypeNoDefault(a) == Arg(a, "similarityType")

\* args.similarityType || 'CONDITION'
similarityType(a) == OrElse(Arg(a, "similarityType"), Str("CONDITION"))

\* searchParams, from the reference study and the similarity type.
handleGetSimilarStudiesSearchParams(a, referenceStudy) ==
    LET p0 == BaseParams(a)
    IN  CASE similarityType(a) = Str("CONDITION") ->
               PutIf(p0, "query.cond", FirstOf(referenceStudy.conditions))
          [] similarityType(a) = Str("SPONSOR") ->
               PutIf(p0, "query.spons", referenceStudy.sponsor)
          [] similarityType(a) = Str("PHASE") ->
               PutIf(p0, "filter.phase", FirstOf(referenceStudy.phases))
          [] OTHER -> p0

handleSearchByPrimaryOutcomeParams(a) ==
    LET p0 == Put(BaseParams(a), "query.outc", Arg(a, "outcome"))
        p1 == PutIf(p0, "query.cond", Arg(a, "condition"))
    IN  PutIf(p1, "filter.phase", Arg(a, "phase"))

\* healthyVolunteers is tested with !== undefined, the others by truthiness.
handleSearchByEligibilityCriteriaParams(a) ==
    LET p0 == BaseParams(a)
        p1 == PutIf(p0, "filter.minimumAge", Arg(a, "minAge"))
        p2 == PutIf(p1, "filter.maximumAge", Arg(a, "maxAge"))
        p3 == PutIf(p2, "filter.sex", Arg(a, "sex"))
        p4 == IF Arg(a, "healthyVolunteers") # Undef
              THEN Put(p3, "filter.healthyVolunteers",
                       Arg(a, "healthyVolunteers"))
              ELSE p3
        p5 == PutIf(p4, "query.cond", Arg(a, "condition"))
    IN  PutIf(p5, "query.eligibility", Arg(a, "inclusionKeywords"))

\* args?.timelineType || 'CURRENT'
timelineType(a) == OrElse(Arg(a, "timelineType"), Str("CURRENT"))

\* futureDate = new Date(); futureDate.setDate(futureDate.getDate() + 30):
\* getDate and setDate work on the local date, so the local date moves on by
\* 30 days and the local time of day stays. The result is the instant that
\* local time stands for, in hours since the epoch.
futureDate(today) == today.utc + today.offset + 30 * 24 - today.offsetLater

\* date.toISOString().split('T')[0]: the UTC calendar date of an instant.
toISOString(instant) == DateStr(instant \div 24)

handleGetStudyTimelineParams(a, today) ==
    LET p0 == BaseParams(a)
        p1 == PutIf(p0, "query.cond", Arg(a, "condition"))
        p2 == PutIf(p1, "query.spons", Arg(a, "sponsor"))
        p3 == PutIf(p2, "filter.phase", Arg(a, "phase"))
    IN  CASE timelineType(a) = Str("CURRENT") ->
               Put(p3, "filter.overallStatus",
                   Str("RECRUITING,NOT_YET_RECRUITING,ACTIVE_NOT_RECRUITING"))
          [] timelineType(a) = Str("COMPLETED") ->
               Put(p3, "filter.overallStatus", Str("COMPLETED"))
          [] timelineType(a) = Str("UPCOMING") ->
               Put(Put(p3, "filter.overallStatus", Str("NOT_YET_RECRUITING")),
                   "filter.studyStartDateFrom", toISOString(futureDate(today)))
          [] OTHER -> p3

handleSearchInternationalStudiesParams(a) ==
    LET p0 == BaseParams(a)
        p1 == PutIf(p0, "query.cond", Arg(a, "condition"))
        p2 == PutIf(p1, "filter.phase", Arg(a, "phase"))
    IN  PutIf(p2, "query.locn", Arg(a, "includeCountry"))

(***************************************************************************)
(* The synchronous prefix of a handler: its argument check and the query   *)
(* of its first request.                                                   *)
(***************************************************************************)
\* The argument a handler tests with `if (!args?.x) throw new McpError(...)`.
RequiredArg(t) ==
    CASE t = "search_by_condition" -> "condition"
      [] t = "search_by_sponsor" -> "sponsor"
      [] t = "search_by_intervention" -> "intervention"
      [] t = "search_rare_diseases" -> "rareDisease"
      [] t = "search_by_primary_outcome" -> "outcome"
      [] OTHER -> ""

\* A handler that only tests its required argument against undefined.
HandlerThrowsInvalidParamsLax(t, a) ==
    CASE t \in {"get_study_details", "get_similar_studies"} ->
           Arg(a, "nctId") = Undef
      [] RequiredArg(t) # "" -> Arg(a, RequiredArg(t)) = Undef
      [] OTHER -> FALSE

\* Whether the handler throws McpError(InvalidParams) before any request.
HandlerThrowsInvalidParams(t, a) ==
    CASE t \in {"get_study_details", "get_similar_studies"} -> NctIdRejected(a)
      [] RequiredArg(t) # "" -> ~Truthy(Arg(a, RequiredArg(t)))
      [] OTHER -> FALSE

\* The params of the request a handler issues first.
FirstParams(t, a, today) ==
    CASE t = "search_studies" -> handleSearchStudiesParams(a)
      [] t = "get_study_details" -> handleGetStudyDetailsParams(a)
      [] t = "search_by_location" -> handleSearchByLocationParams(a)
      [] t = "search_by_condition" -> handleSearchByConditionParams(a)
      [] t = "get_trial_statistics" -> handleGetTrialStatisticsParams(a)
      [] t = "search_by_sponsor" -> handleSearchBySponsorParams(a)
      [] t = "search_by_intervention" -> handleSearchByInterventionParams(a)
      [] t = "get_recruiting_studies" -> handleGetRecruitingStudiesParams(a)
      [] t = "search_by_date_range" -> handleSearchByDateRangeParams(a)
      [] t = "get_studies_with_results" -> handleGetStudiesWithResultsParams(a)
      [] t = "search_rare_diseases" -> handleSearchRareDiseasesParams(a)
      [] t = "get_pediatric_studies" -> handleGetPediatricStudiesParams(a)
      [] t = "get_similar_studies" -> handleGetSimilarStudiesReferenceParams(a)
      [] t = "search_by_primary_outcome" ->
           handleSearchByPrimaryOutcomeParams(a)
      [] t = "search_by_eligibility_criteria" ->
           handleSearchByEligibilityCriteriaParams(a)
      [] t = "get_study_timeline" -> handleGetStudyTimelineParams(a, today)
      [] t = "search_international_studies" ->
           handleSearchInternationalStudiesParams(a)

(***************************************************************************)
(* What a handler hands to its dispatcher: a returned tool result          *)
(* { content: [{ type: 'text', text }], isError? } or a thrown error.      *)
(* text is "json" for JSON.stringify(...) of a result object and "plain"   *)
(* for a diagnostic sentence; data names what the text holds and msg which *)
(* diagnostic it is.                                                       *)
(***************************************************************************)
Returned(isErr, textKind, dataKind, msgKind) ==
    [how |-> "return", isError |-> isErr, text |-> textKind,
     data |-> dataKind, msg |-> msgKind, err |-> "none", code |-> "none"]

Thrown(errClass, errCode, msgKind) ==
    [how |-> "throw", isError |-> FALSE, text |-> "none",
     data |-> "none", msg |-> msgKind, err |-> errClass, code |-> errCode]

\* throw new McpError(ErrorCode.InvalidParams, '... is required')
InvalidParamsError == Thrown("McpError", "InvalidParams", "argument_required")

\* response.data.studies on a body that is null: a TypeError, which the
\* handler's catch rethrows because it is no AxiosError.
BodyTypeError == Thrown("TypeError", "none", "type_error")

\* What the JSON text of a successful result holds, per tool.
SuccessData(t) ==
    CASE t = "get_study_details" -> "study_details"
      [] t = "get_trial_statistics" -> "statistics"
      [] t = "get_similar_studies" -> "similar_studies"
      [] t = "search_international_studies" -> "international_studies"
      [] OTHER -> "studies"

\* return { content: [{ type: 'text', text: JSON.stringify({...}) }] }
SuccessResult(t) == Returned(FALSE, "json", SuccessData(t), "none")

\* A not-found branch that would return the (empty) result object instead.
NotFoundResultAsData(t) == Returned(TRUE, "json", SuccessData(t), "none")

\* The branch `studies.length === 0` of the two identifier lookups.
NotFoundResult(t) ==
    IF t = "get_study_details"
    THEN Returned(TRUE, "plain", "diagnostic", "no_study_found")
    ELSE Returned(TRUE, "plain", "diagnostic", "reference_study_not_found")

\* An AxiosError: status 0 stands for no response at all (transport error,
\* timeout); hasMessage says whether error.response.data.message is set.
AxiosErrors ==
    { [status |-> 0, hasMessage |-> FALSE],
      [status |-> 404, hasMessage |-> FALSE],
      [status |-> 404, hasMessage |-> TRUE],
      [status |-> 500, hasMessage |-> FALSE],
      [status |-> 500, hasMessage |-> TRUE] }

\* `Clinical Trials API error: ${error.response?.data?.message || error.message}`
ApiErrorMessage(e) ==
    IF e.hasMessage THEN "upstream_message" ELSE "axios_error_message"

\* The catch block of a handler on an AxiosError.
AxiosErrorResult(t, e) ==
    IF t = "get_study_details" /\ e.status = 404
    THEN Returned(TRUE, "plain", "diagnostic", "study_not_found")
    ELSE Returned(TRUE, "plain", "diagnostic", ApiErrorMessage(e))

(***************************************************************************)
(* The two dispatchers.                                                    *)
(***************************************************************************)
Outcome(viaKind, httpStatus, keySet, ok, isErr, dataKind, msgKind, errCode) ==
    [via |-> viaKind, status |-> httpStatus, keys |-> keySet,
     success |-> ok, isError |-> isErr, data |-> dataKind,
     msg |-> msgKind, code |-> errCode]

NoOutcome == Outcome("none", 0, {}, "absent", "absent", "none", "none", "none")

\* result.isError || false, as a JSON field.
IsErrorField(h) == IF h.isError THEN "true" ELSE "false"

\* The CallToolRequestSchema handler: a returned result goes out as it is,
\* an McpError is rethrown, anything else is rethrown as InternalError.
McpDispatch(h) ==
    IF h.how = "return"
    THEN Outcome("mcp_result", 0,
                 IF h.isError THEN {"content", "isError"} ELSE {"content"},
                 "absent", IsErrorField(h), h.data, h.msg, "none")
    ELSE Outcome("mcp_error", 0, {"code", "message"}, "absent", "absent",
                 "none", h.msg,
                 IF h.err = "McpError" THEN h.code ELSE "InternalError")

\* default: throw new McpError(ErrorCode.MethodNotFound, ...)
McpUnknownTool ==
    Outcome("mcp_error", 0, {"code", "message"}, "absent", "absent", "none",
            "unknown_tool", "MethodNotFound")

\* res.status(500).json({ success: false, tool, error })
HttpCaught(msgKind) ==
    Outcome("http", 500, {"success", "tool", "error"}, "false", "absent",
            "none", msgKind, "none")

\* A dispatcher that lets what the handler threw go up to its caller.
HttpDispatchUncaught(h) ==
    CASE h.how = "throw" ->
           Outcome("http_uncaught", 0, {}, "absent", "absent", "none", h.msg,
                   "none")
      [] h.text = "json" ->
           Outcome("http", 200, {"success", "tool", "data", "isError"},
                   "true", IsErrorField(h), h.data, h.msg, "none")
      [] OTHER -> HttpCaught("json_syntax_error")

\* handleToolCall after its switch: JSON.parse(result.content[0].text) of a
\* plain sentence throws a SyntaxError inside the try, so does nothing but
\* reach the catch block, like an error the handler threw itself.
HttpDispatch(h) ==
    CASE h.how = "throw" -> HttpCaught(h.msg)
      [] h.text = "json" ->
           Outcome("http", 200, {"success", "tool", "data", "isError"},
                   "true", IsErrorField(h), h.data, h.msg, "none")
      [] OTHER -> HttpCaught("json_syntax_error")

\* default: return res.status(404).json({ error: `Unknown tool: ...` })
HttpUnknownTool ==
    Outcome("http", 404, {"error"}, "absent", "absent", "none",
            "unknown_tool", "none")

Dispatch(e, h) == IF e = "mcp" THEN McpDispatch(h) ELSE HttpDispatch(h)

\* An unknown tool name answered like a search that found nothing.
DispatchUnknownToolAsEmptySearch(e) == Dispatch(e, SuccessResult("search_studies"))

DispatchUnknownTool(e) == IF e = "mcp" THEN McpUnknownTool ELSE HttpUnknownTool

(***************************************************************************)
(* The inputs of the model: argument bags and upstream answers.            *)
(***************************************************************************)
\* A sample non-empty string for each free-text or enumerated argument.
SampleText(name) ==
    CASE name = "country" -> "Canada"
      [] name = "state" -> "Ontario"
      [] name = "city" -> "Toronto"
      [] name = "facilityName" -> "General Hospital"
      [] name \in {"phase", "filters.phase"} -> "PHASE3"
      [] name \in {"status", "recruitmentStatus", "filters.status"} ->
           "RECRUITING"
      [] name = "sex" -> "FEMALE"
      [] name \in {"age", "ageGroup"} -> "ADULT"
      [] name \in {"minAge", "maxAge"} -> "18 Years"
      [] name = "groupBy" -> "phase"
      [] OTHER -> "diabetes"

\* The values an argument takes when the bag carries it.
ArgValues(name) ==
    CASE name = "pageSize" ->
           {Null, Num(-1), Num(0), Num(1), Num(50), Num(51), Num(100), Num(101)}
      [] name = "nctId" -> {Null, Str("")} \cup {Str(s) : s \in NctIdStrings}
      [] name = "distance" -> {Null, Num(0), Num(25)}
      [] name = "minCountries" -> {Null, Num(0), Num(2), Num(4)}
      [] name = "healthyVolunteers" ->
           {Null, Str(""), Bool(TRUE), Bool(FALSE)}
      [] name = "ageRange" ->
           {Null, Str(""), Str("INFANT"), Str("CHILD"), Str("ADOLESCENT"),
            Str("TEEN")}
      [] name = "timelineType" ->
           {Null, Str(""), Str("CURRENT"), Str("COMPLETED"), Str("UPCOMING"),
            Str("PAST")}
      [] name = "similarityType" ->
           {Null, Str(""), Str("CONDITION"), Str("INTERVENTION"),
            Str("SPONSOR"), Str("PHASE")}
      [] OTHER -> {Null, Str(""), Str(SampleText(name))}

\* The bags that give a value to exactly the names in S.
RECURSIVE BagsOver(_)
BagsOver(S) ==
    IF S = {} THEN {<<>>}
    ELSE LET name == CHOOSE x \in S : TRUE
         IN  {Put(g, name, v) : g \in BagsOver(S \ {name}),
                                v \in ArgValues(name)}

\* The bags of a tool: at most MaxPresent of its arguments are present.
ArgBags(t) ==
    UNION {BagsOver(S) :
             S \in {X \in SUBSET ArgNames(t) : Cardinality(X) <= MaxPresent}}

\* A trial record, as far as the handlers modelled here read it.
NoStudy ==
    [nctId |-> "", briefTitle |-> "", conditions |-> <<>>,
     sponsor |-> Undef, phases |-> <<>>]

StudyPool ==
    { [nctId |-> "NCT12345678", briefTitle |-> "Trial A",
       conditions |-> <<"diabetes", "obesity">>, sponsor |-> Str("Acme"),
       phases |-> <<"PHASE3">>],
      [nctId |-> "NCT00000000", briefTitle |-> "Trial B",
       conditions |-> <<>>, sponsor |-> Undef, phases |-> <<>>],
      [nctId |-> "NCT00000001", briefTitle |-> "Trial C",
       conditions |-> <<"">>, sponsor |-> Str(""), phases |-> <<"">>] }

\* response.data.studies of a 2xx answer: up to MaxPage records.
Pages == UNION {[1..n -> StudyPool] : n \in 0..MaxPage}

\* The clock readings of the calls of the main machine: noon of the days
\* 0..MaxDay, read by a process whose time zone is UTC.
Days == {Clock(d * 24 + 12, 0, 0) : d \in 0..MaxDay}

Entries == {"mcp", "http"}

(***************************************************************************)
(* JavaScript strings as sequences of characters, for the handlers that    *)
(* look inside a string.                                                   *)
(***************************************************************************)
\* String.prototype.toLowerCase, on the letters the model writes.
LowerChar(c) ==
    CASE c = "A" -> "a"
      [] c = "B" -> "b"
      [] OTHER -> c

toLowerCase(chars) == [i \in DOMAIN chars |-> LowerChar(chars[i])]

\* The characters \s matches, among those the model writes.
Whitespace == {" ", "\t", "\n"}

\* The first index from i on that holds no whitespace (Len + 1 if none).
RECURSIVE SkipWhitespace(_, _)
SkipWhitespace(chars, i) ==
    IF i > Len(chars) \/ chars[i] \notin Whitespace THEN i
    ELSE SkipWhitespace(chars, i + 1)

\* String.prototype.split(/\s+/): the pieces between the maximal runs of
\* whitespace, the empty piece before a leading run and after a trailing run
\* included; the empty string splits into one empty piece.
RECURSIVE SplitFrom(_, _, _, _)
SplitFrom(chars, i, piece, pieces) ==
    IF i > Len(chars) THEN Append(pieces, piece)
    ELSE IF chars[i] \in Whitespace
         THEN SplitFrom(chars, SkipWhitespace(chars, i), <<>>,
                        Append(pieces, piece))
         ELSE SplitFrom(chars, i + 1, Append(piece, chars[i]), pieces)

split(chars) == SplitFrom(chars, 1, <<>>, <<>>)

\* String.prototype.includes: word occurs in text as a substring.
includes(text, word) ==
    \E i \in 0..(Len(text) - Len(word)) :
        SubSeq(text, i + 1, i + Len(word)) = word

\* The distinct elements of a list: new Set(list).
SetOf(list) == {list[i] : i \in DOMAIN list}

(***************************************************************************)
(* The records and responses the derived views read.                       *)
(***************************************************************************)
\* eligibilityModule?.eligibilityCriteria: absent, or a text.
NoCriteria == [has |-> FALSE, chars |-> <<>>]

Criteria(chars) == [has |-> TRUE, chars |-> chars]

\* A trial record as the derived views read it: its identifier, the country
\* of each of its locations, and its eligibility-criteria text.
ViewStudy(id, countryList, criteria) ==
    [nctId |-> id, locations |-> countryList, eligibilityCriteria |-> criteria]

\* response.data of a 2xx answer: { studies, totalCount }.
Body(studyList, count) == [studies |-> studyList, totalCount |-> count]

\* The identifiers of a list of records, in order.
IdsOf(studyList) == [i \in DOMAIN studyList |-> studyList[i].nctId]

\* response.data.totalCount || 0
totalCount(body) == OrElse(body.totalCount, Num(0))

(***************************************************************************)
(* The derived views: what a handler computes from the response.           *)
(***************************************************************************)
\* The result object of a view, as far as the model reads it.
ViewResult(count, results) ==
    [totalCount |-> count, resultsShown |-> Len(results),
     studies |-> IdsOf(results)]

\* eligibilityModule?.eligibilityCriteria?.toLowerCase() || ''
eligibilityCriteria(study) ==
    IF study.eligibilityCriteria.has
    THEN toLowerCase(study.eligibilityCriteria.chars)
    ELSE <<>>

\* !exclusionWords.some(word => eligibilityCriteria.includes(word))
KeptByExclusion(study, exclusionWords) ==
    ~ \E i \in DOMAIN exclusionWords :
          includes(eligibilityCriteria(study), exclusionWords[i])

\* An exclusion filter that loses the first record it keeps.
exclusionFilterLosingFirst(studies, exclusionKeywords) ==
    LET exclusionWords == split(toLowerCase(exclusionKeywords))
        kept == SelectSeq(studies,
                       LAMBDA study : KeptByExclusion(study, exclusionWords))
    IN  IF kept = <<>> THEN kept ELSE Tail(kept)

\* exclusionWords = exclusionKeywords.toLowerCase().split(/\s+/), then
\* studies.filter(...), for a phrase given as characters.
exclusionFilter(studies, exclusionKeywords) ==
    LET exclusionWords == split(toLowerCase(exclusionKeywords))
    IN  SelectSeq(studies, LAMBDA study : KeptByExclusion(study, exclusionWords))

\* filteredStudies of handleSearchByEligibilityCriteria.
eligibilityFilteredStudies(a, studies) ==
    IF Truthy(Arg(a, "exclusionKeywords"))
    THEN exclusionFilter(studies, CharsOf(Arg(a, "exclusionKeywords").s))
    ELSE studies

\* A result that reports the number of records shown as its totalCount.
handleSearchByEligibilityCriteriaResultCountsShown(a, body) ==
    ViewResult(Num(Len(eligibilityFilteredStudies(a, body.studies))),
               eligibilityFilteredStudies(a, body.studies))

handleSearchByEligibilityCriteriaResult(a, body) ==
    ViewResult(totalCount(body), eligibilityFilteredStudies(a, body.studies))

\* new Set(locations.map(loc => loc.country))
countries(study) == SetOf(study.locations)

\* An international filter without the floor of two countries.
isInternationalNoFloor(a, study) ==
    IF /\ Truthy(Arg(a, "minCountries"))
       /\ Cardinality(countries(study)) < Arg(a, "minCountries").n
    THEN FALSE
    ELSE IF /\ Truthy(Arg(a, "excludeCountry"))
            /\ Arg(a, "excludeCountry").s \in countries(study)
         THEN FALSE
         ELSE TRUE

\* The filter callback of handleSearchInternationalStudies.
isInternational(a, study) ==
    IF /\ Truthy(Arg(a, "minCountries"))
       /\ Cardinality(countries(study)) < Arg(a, "minCountries").n
    THEN FALSE
    ELSE IF /\ Truthy(Arg(a, "excludeCountry"))
            /\ Arg(a, "excludeCountry").s \in countries(study)
         THEN FALSE
         ELSE Cardinality(countries(study)) >= 2

handleSearchInternationalStudiesResult(a, body) ==
    ViewResult(totalCount(body),
               SelectSeq(body.studies, LAMBDA study : isInternational(a, study)))

\* A similarity result that keeps the reference study.
similarStudiesKeepingReference(a, studies) == studies

\* studies.filter(study => ...nctId !== args.nctId)
similarStudies(a, studies) ==
    SelectSeq(studies, LAMBDA study : study.nctId # Arg(a, "nctId").s)

handleGetSimilarStudiesResult(a, body) ==
    ViewResult(totalCount(body), similarStudies(a, body.studies))

\* The result of a view's handler on the 2xx answer to its (last) request.
ViewHandlerResult(t, a, body) ==
    CASE t = "search_by_eligibility_criteria" ->
           handleSearchByEligibilityCriteriaResult(a, body)
      [] t = "search_international_studies" ->
           handleSearchInternationalStudiesResult(a, body)
      [] t = "get_similar_studies" -> handleGetSimilarStudiesResult(a, body)

(***************************************************************************)
(* The inputs of the derived views.                                        *)
(***************************************************************************)
ViewTools ==
    {"search_by_eligibility_criteria", "search_international_studies",
     "get_similar_studies"}

\* The argument bags a view is run on: a value (or undefined) for each of
\* the arguments its handler reads after the await.
ViewArgBags(t) ==
    CASE t = "search_by_eligibility_criteria" ->
           [{"exclusionKeywords", "inclusionKeywords"} ->
               {Undef, Str(""), Str("a"), Str("A b"), Str("b "), Str(" ")}]
      [] t = "search_international_studies" ->
           {[k \in {"minCountries", "excludeCountry"} |->
                IF k = "minCountries" THEN m ELSE x] :
              m \in {Undef, Num(0), Num(2), Num(3), Num(4)},
              x \in {Undef, Str(""), Str("Canada")}}
      [] t = "get_similar_studies" ->
           [{"nctId"} -> {Str("NCT12345678"), Str("NCT00000000")}]

\* The records a view's response is made of.
ViewPool(t) ==
    CASE t = "search_by_eligibility_criteria" ->
           { ViewStudy("NCT00000001", <<>>, NoCriteria),
             ViewStudy("NCT00000002", <<>>, Criteria(<<>>)),
             ViewStudy("NCT00000003", <<>>, Criteria(<<"A", "a">>)),
             ViewStudy("NCT00000004", <<>>, Criteria(<<"c", " ", "B">>)) }
      [] t = "search_international_studies" ->
           { ViewStudy("NCT00000001", <<>>, NoCriteria),
             ViewStudy("NCT00000002", <<"Canada">>, NoCriteria),
             ViewStudy("NCT00000003", <<"Japan", "Japan">>, NoCriteria),
             ViewStudy("NCT00000004", <<"Canada", "Mexico">>, NoCriteria),
             ViewStudy("NCT00000005", <<"France", "Japan", "France", "Mexico">>,
                       NoCriteria),
             ViewStudy("NCT00000006", <<"Canada", "France", "Japan", "Mexico">>,
                       NoCriteria) }
      [] t = "get_similar_studies" ->
           { ViewStudy("NCT12345678", <<>>, NoCriteria),
             ViewStudy("NCT00000000", <<>>, NoCriteria),
             ViewStudy("NCT00000001", <<>>, NoCriteria) }

\* The records the reference lookup of a view is answered with.
ViewReferences(t) ==
    IF t = "get_similar_studies" THEN StudyPool ELSE {NoStudy}

\* response.data.totalCount: absent, or a number.
TotalCounts == {Undef, Num(0), Num(450)}

\* The 2xx answers a view is run on: up to MaxViewPage records.
ViewBodies(t) ==
    {Body(page, count) :
        page \in UNION {[1..n -> ViewPool(t)] : n \in 0..MaxViewPage},
        count \in TotalCounts}

NoViewResult == [totalCount |-> Undef, resultsShown |-> 0, studies |-> <<>>]

\* A view before its handler is called (stage "in"), while a request of the
\* handler is pending ("await") and after the handler returned ("out"):
\* reference is the record the reference lookup of get_similar_studies will
\* be answered with, body the answer to the handler's last request, sent the
\* queries issued so far.
ViewOf(s, t, a, reference, b, queries, r) == [stage |-> s, tool |-> t, args |-> a, reference |-> reference, body |-> b, sent |-> queries, result |-> r]

NoView == ViewOf("none", UnknownTool, <<>>, NoStudy, Body(<<>>, Undef), <<>>, NoViewResult)

\* The exclusion filter on its own: a phrase, a page of criteria texts, the
\* page filtered once and filtered twice.
ExclOf(s, phrase, page, once, twice) ==
    [stage |-> s, exclusionKeywords |-> phrase, studies |-> page,
     filtered |-> once, again |-> twice]

NoExcl == ExclOf("none", <<>>, <<>>, <<>>, <<>>)

\* No call slot is in use.
NoCalls == <<>>

\* The timeline query on its own: stage, clock reading, arguments, query.
DateOf(s, c, a, p) == [stage |-> s, clock |-> c, args |-> a, params |-> p]

NoDate == DateOf("off", NoClock, <<>>, <<>>)

(***************************************************************************)
(* The projections of a trial record into the output, and the statistics   *)
(* of a page.                                                              *)
(***************************************************************************)
\* An optional list of a record (designModule?.phases,
\* conditionsModule?.conditions): absent, or a list.
NoList == [has |-> FALSE, items |-> <<>>]

List(items) == [has |-> TRUE, items |-> items]

\* A criteria text of n characters.
TextOfLength(n) == [i \in 1..n |-> "x"]

\* A record with every module and field, four conditions and a criteria
\* text longer than a preview.
FullStudy ==
    [nctId |-> "NCT12345678", briefTitle |-> "Trial A",
     overallStatus |-> Str("RECRUITING"), startDate |-> Str("2024-01-15"),
     phases |-> List(<<"PHASE2", "PHASE3">>),
     studyType |-> Str("INTERVENTIONAL"),
     conditions |-> List(<<"diabetes", "obesity", "hypertension", "asthma">>),
     sponsor |-> Str("Acme"), sex |-> Str("FEMALE"),
     minimumAge |-> Str("18 Years"), maximumAge |-> Str("65 Years"),
     healthyVolunteers |-> Bool(TRUE),
     eligibilityCriteria |-> Criteria(TextOfLength(201))]

\* A record with the two modules interface Study requires and nothing else.
BareStudy ==
    [nctId |-> "NCT00000000", briefTitle |-> "Trial B",
     overallStatus |-> Str("COMPLETED"), startDate |-> Undef,
     phases |-> NoList, studyType |-> Undef, conditions |-> NoList,
     sponsor |-> Undef, sex |-> Undef, minimumAge |-> Undef,
     maximumAge |-> Undef, healthyVolunteers |-> Undef,
     eligibilityCriteria |-> NoCriteria]

\* A record whose optional fields are present and empty.
EmptyStudy ==
    [nctId |-> "NCT00000001", briefTitle |-> "Trial C",
     overallStatus |-> Str("RECRUITING"), startDate |-> Str(""),
     phases |-> List(<<>>), studyType |-> Str(""), conditions |-> List(<<>>),
     sponsor |-> Str(""), sex |-> Str(""), minimumAge |-> Str(""),
     maximumAge |-> Str(""), healthyVolunteers |-> Bool(FALSE),
     eligibilityCriteria |-> Criteria(<<>>)]

\* A record with one phase, two conditions and a short criteria text.
ShortStudy ==
    [nctId |-> "NCT00000002", briefTitle |-> "Trial D",
     overallStatus |-> Str("COMPLETED"), startDate |-> Str("2023-06-01"),
     phases |-> List(<<"PHASE3">>), studyType |-> Str("OBSERVATIONAL"),
     conditions |-> List(<<"obesity", "diabetes">>),
     sponsor |-> Str("Acme"), sex |-> Str("ALL"),
     minimumAge |-> Str("18 Years"), maximumAge |-> Undef,
     healthyVolunteers |-> Bool(FALSE),
     eligibilityCriteria |-> Criteria(TextOfLength(2))]

\* A record whose sponsor and first condition bear names that every object
\* inherits from Object.prototype.
InheritedNameStudy ==
    [nctId |-> "NCT00000003", briefTitle |-> "Trial E",
     overallStatus |-> Str("RECRUITING"), startDate |-> Str("2022-03-01"),
     phases |-> List(<<"PHASE1">>), studyType |-> Str("INTERVENTIONAL"),
     conditions |-> List(<<"__proto__", "diabetes">>),
     sponsor |-> Str("constructor"), sex |-> Str("ALL"),
     minimumAge |-> Undef, maximumAge |-> Undef,
     healthyVolunteers |-> Bool(FALSE),
     eligibilityCriteria |-> Criteria(TextOfLength(2))]

ProjPool == {FullStudy, BareStudy, EmptyStudy, ShortStudy, InheritedNameStudy}

\* list.slice(0, end) and text.substring(0, end)
slice(list, end) == SubSeq(list, 1, IF Len(list) < end THEN Len(list) ELSE end)

\* The same projection with the whole conditions list.
formatStudySummaryAllConditions(study) ==
    [nctId |-> study.nctId,
     title |-> study.briefTitle,
     status |-> study.overallStatus,
     phase |-> IF study.phases.has THEN study.phases.items
               ELSE <<"Not specified">>,
     studyType |-> OrElse(study.studyType, Str("Unknown")),
     sponsor |-> OrElse(study.sponsor, Str("Not specified")),
     conditions |-> study.conditions.items,
     startDate |-> OrElse(study.startDate, Str("Not specified"))]

\* An array is truthy also when it is empty: `phases || [...]` and
\* `conditions?.slice(0, 3) || []` take the right-hand side only for an
\* absent list.
formatStudySummary(study) ==
    [nctId |-> study.nctId,
     title |-> study.briefTitle,
     status |-> study.overallStatus,
     phase |-> IF study.phases.has THEN study.phases.items
               ELSE <<"Not specified">>,
     studyType |-> OrElse(study.studyType, Str("Unknown")),
     sponsor |-> OrElse(study.sponsor, Str("Not specified")),
     conditions |-> IF study.conditions.has
                    THEN slice(study.conditions.items, 3) ELSE <<>>,
     startDate |-> OrElse(study.startDate, Str("Not specified"))]

\* The tools whose output studies spread formatStudySummary(study).
SummaryTools ==
    ToolNames \ {"get_study_details", "get_trial_statistics"}

\* The tools that, after the spread, set conditions again:
\* conditions: conditionsModule?.conditions || []
ConditionsTools ==
    {"search_by_condition", "search_rare_diseases", "get_pediatric_studies"}

\* The keys of the summary in an output study of tool t.
outputSummary(t, study) ==
    IF t \in ConditionsTools
    THEN [formatStudySummary(study) EXCEPT !.conditions = study.conditions.items]
    ELSE formatStudySummary(study)

\* eligibilityCriteria?.substring(0, 200) + '...' || 'Not available': + binds
\* tighter than ||, and undefined + '...' is the string 'undefined...'.
criteriaPreview(study) ==
    LET cut == IF study.eligibilityCriteria.has
               THEN slice(study.eligibilityCriteria.chars, 200)
               ELSE CharsOf("undefined")
        text == cut \o CharsOf("...")
    IN  IF text # <<>> THEN text ELSE CharsOf("Not available")

\* The eligibility block of search_by_eligibility_criteria.
eligibility(study) ==
    [sex |-> OrElse(study.sex, Str("Unknown")),
     minimumAge |-> OrElse(study.minimumAge, Str("Not specified")),
     maximumAge |-> OrElse(study.maximumAge, Str("Not specified")),
     healthyVolunteers |-> OrElse(study.healthyVolunteers, Bool(FALSE)),
     criteriaPreview |-> criteriaPreview(study)]

\* The tools whose output studies carry an eligibility key.
EligibilityTools ==
    {"search_by_condition", "get_recruiting_studies", "search_rare_diseases",
     "get_pediatric_studies", "search_by_eligibility_criteria"}

\* The eligibility key of an output study of tool t: the block with the
\* criteria preview for search_by_eligibility_criteria, sex and the two ages
\* for search_rare_diseases, and these with healthyVolunteers for
\* search_by_condition, get_recruiting_studies and get_pediatric_studies.
outputEligibility(t, study) ==
    CASE t = "search_by_eligibility_criteria" -> eligibility(study)
      [] t = "search_rare_diseases" ->
           [sex |-> OrElse(study.sex, Str("Unknown")),
            minimumAge |-> OrElse(study.minimumAge, Str("Not specified")),
            maximumAge |-> OrElse(study.maximumAge, Str("Not specified"))]
      [] OTHER ->
           [sex |-> OrElse(study.sex, Str("Unknown")),
            minimumAge |-> OrElse(study.minimumAge, Str("Not specified")),
            maximumAge |-> OrElse(study.maximumAge, Str("Not specified")),
            healthyVolunteers |-> OrElse(study.healthyVolunteers, Bool(FALSE))]

\* The switch of groupByField: the value a record is grouped under.
groupValue(study, field) ==
    CASE field = "status" -> study.overallStatus
      [] field = "phase" ->
           OrElse(FirstOf(study.phases.items), Str("Not specified"))
      [] field = "studyType" -> OrElse(study.studyType, Str("Unknown"))
      [] field = "condition" ->
           OrElse(FirstOf(study.conditions.items), Str("Not specified"))
      [] field = "sponsor" -> OrElse(study.sponsor, Str("Not specified"))
      [] OTHER -> Str("Unknown")

\* The names a plain object {} inherits from Object.prototype.
InheritedNames ==
    {"constructor", "toString", "toLocaleString", "valueOf", "hasOwnProperty",
     "isPrototypeOf", "propertyIsEnumerable", "__defineGetter__",
     "__defineSetter__", "__lookupGetter__", "__lookupSetter__", "__proto__"}

\* What the inherited value of a name becomes as the left operand of + 1:
\* the source text of the function, or of Object.prototype for __proto__.
InheritedText(key) ==
    CASE key = "constructor" -> "function Object() { [native code] }"
      [] key = "__proto__" -> "[object Object]"
      [] OTHER -> "function " \o key \o "() { [native code] }"

\* groups[key] on const groups: { [key: string]: number } = {}: the own
\* property, else the inherited one (an object, truthy), else undefined.
groupsAt(groups, key) ==
    IF key \in DOMAIN groups THEN groups[key]
    ELSE IF key \in InheritedNames THEN Str(InheritedText(key))
    ELSE Undef

\* (v || 0) + 1: a sum for a number, a concatenation for anything else.
orZeroPlusOne(v) ==
    LET left == OrElse(v, Num(0))
    IN  IF left.t = "number" THEN Num(left.n + 1) ELSE Str(left.s \o "1")

\* for each study: groups[key] = (groups[key] || 0) + 1. An assignment to
\* __proto__ of a value that is no object sets nothing.
RECURSIVE groupByField(_, _)
groupByField(studies, field) ==
    IF studies = <<>> THEN <<>>
    ELSE LET groups == groupByField(SubSeq(studies, 1, Len(studies) - 1), field)
             key == groupValue(studies[Len(studies)], field).s
             count == orZeroPlusOne(groupsAt(groups, key))
         IN  IF key = "__proto__" THEN groups
             ELSE [k \in DOMAIN groups \cup {key} |->
                     IF k = key THEN count ELSE groups[k]]

calculateStatistics(studies, groupBy) ==
    IF ~Truthy(groupBy)
    THEN [totalStudies |-> Len(studies),
          byStatus |-> groupByField(studies, "status"),
          byPhase |-> groupByField(studies, "phase"),
          byStudyType |-> groupByField(studies, "studyType")]
    ELSE groupByField(studies, groupBy.s)

\* response.data.studies of the projections: up to MaxProjPage records.
ProjPages == UNION {[1..n -> ProjPool] : n \in 0..MaxProjPage}

\* args?.groupBy: absent, empty, a field of the schema's enum, another name.
GroupByValues ==
    {Undef, Str(""), Str("status"), Str("phase"), Str("studyType"),
     Str("condition"), Str("sponsor"), Str("country")}

\* A projection on its own: the tool, its groupBy, the page, and the output:
\* the summaries and eligibility blocks of the studies, or analyzedStudies
\* and statistics.
ProjOf(s, t, g, page, summaries, blocks, n, stats) == [stage |-> s, tool |-> t, groupBy |-> g, studies |-> page, results |-> summaries, eligibility |-> blocks, analyzedStudies |-> n, statistics |-> stats]

NoProj == ProjOf("off", UnknownTool, Undef, <<>>, <<>>, <<>>, 0, <<>>)

(***************************************************************************)
(* What the calls of one process share: the one instance of the class.    *)
(***************************************************************************)
API_BASE_URL == "https://clinicaltrials.gov/api/v2"

\* The instance as its constructor leaves it: this.server, with the two
\* request handlers setupToolHandlers registers and no transport yet, and
\* this.axiosInstance with its defaults.  The class has no other field, and
\* the constructor holds the only assignments to a field.
ClinicalTrialsServer ==
    [server |-> [requestHandlers |-> {"tools/list", "tools/call"},
                 transport |-> "not_connected"],
     axiosInstance |-> [baseURL |-> API_BASE_URL, timeout |-> 30000]]

\* this.server.connect(transport) and this.server.close()
connect(instance) == [instance EXCEPT !.server.transport = "connected"]

close(instance) == [instance EXCEPT !.server.transport = "not_connected"]

\* The instance of a process that is up: constructed and connected.
ConnectedServer == connect(ClinicalTrialsServer)

(***************************************************************************)
(* The state machine of one tool call.                                     *)
(***************************************************************************)
\* A request as it is issued: st is "pending" until the answer is in, then
\* "ok" (2xx with a studies array of `got` records), "null_body" (2xx whose
\* JSON body is null) or "failed" (the await threw an AxiosError).
Request(p) == [params |-> p, st |-> "pending", got |-> 0]

\* The request in flight is answered: its log entry gets the answer's kind.
Answered(log, kind, n) ==
    [log EXCEPT ![Len(log)] = [params |-> @.params, st |-> kind, got |-> n]]

Init ==
    /\ pc = "idle"
    /\ entry = "mcp"
    /\ tool = UnknownTool
    /\ args = <<>>
    /\ now = NoClock
    /\ sent = <<>>
    /\ ref = NoStudy
    /\ out = NoOutcome
    /\ cand = <<>>
    /\ verdict = "none"
    /\ view = NoView
    /\ excl = NoExcl
    /\ calls = NoCalls
    /\ date = NoDate
    /\ proj = NoProj
    /\ mcpServer = ClinicalTrialsServer
    /\ process = "running"

\* async run(), and `await server.connect(transport)` of the HTTP server:
\* the instance of the process is connected to its transport.
run ==
    /\ process = "running"
    /\ mcpServer.server.transport = "not_connected"
    /\ mcpServer' = connect(mcpServer)
    /\ UNCHANGED <<callVars, nctVars, view, excl, calls, date, proj, process>>

\* The SIGINT listener the constructor registers, up to its await: it
\* closes this.server, whatever calls are in progress.
Sigint ==
    /\ process = "running"
    /\ mcpServer' = close(mcpServer)
    /\ process' = "closing"
    /\ UNCHANGED <<callVars, nctVars, view, excl, calls, date, proj>>

\* The SIGINT listener after its await: process.exit(0).  It follows the
\* close before any handler runs on; what the calls in progress held is
\* never used again.
Exit ==
    /\ process = "closing"
    /\ process' = "exited"
    /\ UNCHANGED <<callVars, nctVars, view, excl, calls, date, proj, mcpServer>>

\* The process takes and serves calls: it is up and connected (both the
\* stdio server and the HTTP server take their first call after connect).
Serving ==
    /\ process = "running"
    /\ mcpServer.server.transport = "connected"

\* A call names a tool outside the switch: the default branch.
CallUnknownTool(e) ==
    /\ pc = "idle"
    /\ pc' = "done"
    /\ entry' = e
    /\ tool' = UnknownTool
    /\ args' = <<>>
    /\ out' = DispatchUnknownTool(e)
    /\ UNCHANGED <<now, sent, ref, cand, verdict, partVars>>

\* A call whose handler throws on its argument check.
CallRejected(e, t, a) ==
    /\ pc = "idle"
    /\ HandlerThrowsInvalidParams(t, a)
    /\ pc' = "done"
    /\ entry' = e
    /\ tool' = t
    /\ args' = a
    /\ out' = Dispatch(e, InvalidParamsError)
    /\ UNCHANGED <<now, sent, ref, cand, verdict, partVars>>

\* A call whose handler composes its query, issues the request and awaits.
CallSends(e, t, a, today) ==
    /\ pc = "idle"
    /\ ~HandlerThrowsInvalidParams(t, a)
    /\ pc' = "await"
    /\ entry' = e
    /\ tool' = t
    /\ args' = a
    /\ now' = today
    /\ sent' = <<Request(FirstParams(t, a, today))>>
    /\ UNCHANGED <<ref, out, cand, verdict, partVars>>

\* The handler's result on a 2xx answer, for the tools with one request.
ResultOnPage(t, page) ==
    IF t = "get_study_details" /\ page = <<>>
    THEN NotFoundResult(t)
    ELSE SuccessResult(t)

\* The one request of a tool other than get_similar_studies is answered 2xx.
\* get_study_details takes studies[0] of a page with records as the study.
UpstreamAnswers(page) ==
    /\ pc = "await"
    /\ tool # "get_similar_studies"
    /\ pc' = "done"
    /\ sent' = Answered(sent, "ok", Len(page))
    /\ ref' = IF tool = "get_study_details" /\ page # <<>> THEN page[1] ELSE ref
    /\ out' = Dispatch(entry, ResultOnPage(tool, page))
    /\ UNCHANGED <<entry, tool, args, now, cand, verdict, partVars>>

\* A reference lookup without a record that goes on to the search anyway.
ReferenceNotFoundSearchesAnyway ==
    /\ pc = "await"
    /\ tool = "get_similar_studies"
    /\ Len(sent) = 1
    /\ sent' = Append(Answered(sent, "ok", 0),
                      Request(handleGetSimilarStudiesSearchParams(args, NoStudy)))
    /\ UNCHANGED <<pc, entry, tool, args, now, ref, out, cand, verdict, partVars>>

\* get_similar_studies: the reference lookup is answered 2xx with no record.
ReferenceNotFound ==
    /\ Serving
    /\ pc = "await"
    /\ tool = "get_similar_studies"
    /\ Len(sent) = 1
    /\ pc' = "done"
    /\ sent' = Answered(sent, "ok", 0)
    /\ out' = Dispatch(entry, NotFoundResult(tool))
    /\ UNCHANGED <<entry, tool, args, now, ref, cand, verdict, partVars>>

\* get_similar_studies: the reference lookup is answered with records; the
\* handler takes studies[0], composes searchParams and issues the search.
ReferenceFound(page) ==
    /\ pc = "await"
    /\ tool = "get_similar_studies"
    /\ Len(sent) = 1
    /\ page # <<>>
    /\ ref' = page[1]
    /\ sent' = Append(Answered(sent, "ok", Len(page)),
                      Request(handleGetSimilarStudiesSearchParams(args, page[1])))
    /\ UNCHANGED <<pc, entry, tool, args, now, out, cand, verdict, partVars>>

\* get_similar_studies: the search is answered 2xx.
SimilarAnswers(page) ==
    /\ pc = "await"
    /\ tool = "get_similar_studies"
    /\ Len(sent) = 2
    /\ pc' = "done"
    /\ sent' = Answered(sent, "ok", Len(page))
    /\ out' = Dispatch(entry, SuccessResult(tool))
    /\ UNCHANGED <<entry, tool, args, now, ref, cand, verdict, partVars>>

\* A handler that issues the failed request once more.
UpstreamFailsAndRetries(e) ==
    /\ pc = "await"
    /\ sent' = Append(Answered(sent, "failed", 0),
                      Request(sent[Len(sent)].params))
    /\ UNCHANGED <<pc, entry, tool, args, now, ref, out, cand, verdict, partVars>>

\* The request in flight fails (transport, timeout, non-2xx): the await
\* throws an AxiosError and the handler's catch block returns.
UpstreamFails(e) ==
    /\ pc = "await"
    /\ pc' = "done"
    /\ sent' = Answered(sent, "failed", 0)
    /\ out' = Dispatch(entry, AxiosErrorResult(tool, e))
    /\ UNCHANGED <<entry, tool, args, now, ref, cand, verdict, partVars>>

\* The request in flight is answered 2xx with the JSON body null: reading
\* response.data.studies throws a TypeError that the handler rethrows.
UpstreamAnswersNull ==
    /\ Serving
    /\ pc = "await"
    /\ pc' = "done"
    /\ sent' = Answered(sent, "null_body", 0)
    /\ out' = Dispatch(entry, BodyTypeError)
    /\ UNCHANGED <<entry, tool, args, now, ref, cand, verdict, partVars>>

\* The caller has its answer; nothing of the call is kept.
CallEnds ==
    /\ Serving
    /\ pc = "done"
    /\ pc' = "idle"
    /\ entry' = "mcp"
    /\ tool' = UnknownTool
    /\ args' = <<>>
    /\ now' = NoClock
    /\ sent' = <<>>
    /\ ref' = NoStudy
    /\ out' = NoOutcome
    /\ UNCHANGED <<cand, verdict, partVars>>

\* The calls that can come in while the server is idle.
UnknownToolCalled ==
    /\ Serving
    /\ pc = "idle"
    /\ \E e \in Entries : CallUnknownTool(e)

RejectedCall ==
    /\ Serving
    /\ pc = "idle"
    /\ \E e \in Entries, t \in ToolNames :
          \E a \in ArgBags(t) : CallRejected(e, t, a)

SendingCall ==
    /\ Serving
    /\ pc = "idle"
    /\ \E e \in Entries, t \in ToolNames, today \in Days :
          \E a \in ArgBags(t) : CallSends(e, t, a, today)

\* The answers the upstream can give to the request in flight.
Answer ==
    /\ Serving
    /\ pc = "await"
    /\ tool # "get_similar_studies"
    /\ \E page \in Pages : UpstreamAnswers(page)

ReferenceAnswer ==
    /\ Serving
    /\ pc = "await"
    /\ tool = "get_similar_studies"
    /\ \E page \in Pages : ReferenceFound(page)

SimilarAnswer ==
    /\ Serving
    /\ pc = "await"
    /\ tool = "get_similar_studies"
    /\ \E page \in Pages : SimilarAnswers(page)

Failure ==
    /\ Serving
    /\ pc = "await"
    /\ \E e \in AxiosErrors : UpstreamFails(e)

Next ==
    \/ run
    \/ Sigint
    \/ Exit
    \/ UnknownToolCalled
    \/ RejectedCall
    \/ SendingCall
    \/ Answer
    \/ ReferenceNotFound
    \/ ReferenceAnswer
    \/ SimilarAnswer
    \/ Failure
    \/ UpstreamAnswersNull
    \/ CallEnds

Spec == Init /\ [][Next]_vars

(***************************************************************************)
(* The identifier check on its own: it is applied to candidate strings     *)
(* around the well-formed shape.                                           *)
(***************************************************************************)
\* "NCT" followed by digits, cut or continued to n characters.
Shaped(n) ==
    [i \in 1..n |->
        CASE i = 1 -> "N"
          [] i = 2 -> "C"
          [] i = 3 -> "T"
          [] OTHER -> IF i % 2 = 0 THEN "0" ELSE "9"]

IdAlphabet == {"N", "C", "T", "n", "X", "0", "9", " ", "-", "\n"}

\* Every shaped string of 0..MaxIdLen characters, and each of them with one
\* character replaced.
Candidates ==
    {Shaped(n) : n \in 0..MaxIdLen} \cup
    UNION {{[Shaped(n) EXCEPT ![i] = c] : i \in 1..n, c \in IdAlphabet} :
             n \in 1..MaxIdLen}

InitNct ==
    /\ pc = "idle"
    /\ entry = "mcp"
    /\ tool = UnknownTool
    /\ args = <<>>
    /\ now = NoClock
    /\ sent = <<>>
    /\ ref = NoStudy
    /\ out = NoOutcome
    /\ cand \in Candidates
    /\ verdict = "none"
    /\ view = NoView
    /\ excl = NoExcl
    /\ calls = NoCalls
    /\ date = NoDate
    /\ proj = NoProj
    /\ mcpServer = ConnectedServer
    /\ process = "running"

\* /^NCT\d{8}$/.test(cand)
Validate ==
    /\ verdict = "none"
    /\ verdict' = IF NctIdTest(cand) THEN "valid" ELSE "invalid"
    /\ UNCHANGED <<callVars, cand, partVars>>

NextNct == Validate

SpecNct == InitNct /\ [][NextNct]_vars

(***************************************************************************)
(* The derived views on their own: a handler called with an argument bag,  *)
(* step by step from await to await, each request answered 2xx.            *)
(***************************************************************************)
\* No tool call is in progress and the identifier check has no candidate.
NothingElseRuns ==
    /\ pc = "idle"
    /\ entry = "mcp"
    /\ tool = UnknownTool
    /\ args = <<>>
    /\ now = NoClock
    /\ sent = <<>>
    /\ ref = NoStudy
    /\ out = NoOutcome
    /\ cand = <<>>
    /\ verdict = "none"

InitView ==
    /\ NothingElseRuns
    /\ view \in UNION {{ViewOf("in", t, a, reference, b, <<>>, NoViewResult) :
                           a \in ViewArgBags(t), b \in ViewBodies(t),
                           reference \in ViewReferences(t)} :
                        t \in ViewTools}
    /\ excl = NoExcl
    /\ calls = NoCalls
    /\ date = NoDate
    /\ proj = NoProj
    /\ mcpServer = ConnectedServer
    /\ process = "running"

\* The handler of view t is called: it composes its first query and issues
\* the request, which is pending at the await.
ComposeView(t) ==
    /\ view.stage = "in"
    /\ view.tool = t
    /\ view' = [view EXCEPT !.stage = "await",
                            !.sent = <<FirstParams(t, view.args, NoClock)>>]
    /\ UNCHANGED <<callVars, nctVars, excl, calls, date, proj, mcpServer, process>>

\* get_similar_studies: the reference lookup is answered with view.reference
\* as studies[0]; the handler composes the search and issues it.
ReferenceView ==
    /\ view.stage = "await"
    /\ view.tool = "get_similar_studies"
    /\ Len(view.sent) = 1
    /\ view' = [view EXCEPT
                  !.sent = Append(@, handleGetSimilarStudiesSearchParams(
                                        view.args, view.reference))]
    /\ UNCHANGED <<callVars, nctVars, excl, calls, date, proj, mcpServer, process>>

\* The last request of the handler of view t is answered with view.body:
\* the handler computes its result and returns.
ReturnView(t) ==
    /\ view.stage = "await"
    /\ view.tool = t
    /\ t = "get_similar_studies" => Len(view.sent) = 2
    /\ view' = [view EXCEPT !.stage = "out",
                            !.result = ViewHandlerResult(t, view.args, view.body)]
    /\ UNCHANGED <<callVars, nctVars, excl, calls, date, proj, mcpServer, process>>

ViewCalled == \E t \in ViewTools : ComposeView(t)

EligibilityView == ReturnView("search_by_eligibility_criteria")

InternationalView == ReturnView("search_international_studies")

SimilarView == ReturnView("get_similar_studies")

NextView ==
    \/ ViewCalled
    \/ ReferenceView
    \/ EligibilityView
    \/ InternationalView
    \/ SimilarView

SpecView == InitView /\ [][NextView]_vars

(***************************************************************************)
(* The exclusion filter on its own, run on every short phrase.             *)
(***************************************************************************)
ExclAlphabet == {"a", "A", "b", " "}

\* The non-empty phrases: the handler filters only if the phrase is truthy.
Phrases == UNION {[1..n -> ExclAlphabet] : n \in 1..MaxPhraseLen}

ExclPool ==
    { ViewStudy("NCT00000001", <<>>, NoCriteria),
      ViewStudy("NCT00000002", <<>>, Criteria(<<>>)),
      ViewStudy("NCT00000003", <<>>, Criteria(<<"a">>)),
      ViewStudy("NCT00000004", <<>>, Criteria(<<"A", "b">>)),
      ViewStudy("NCT00000005", <<>>, Criteria(<<"b", " ", "a">>)),
      ViewStudy("NCT00000006", <<>>, Criteria(<<"B">>)) }

ExclPages == UNION {[1..n -> ExclPool] : n \in 0..MaxExclPage}

InitExcl ==
    /\ NothingElseRuns
    /\ view = NoView
    /\ excl \in {ExclOf("in", phrase, page, <<>>, <<>>) :
                   phrase \in Phrases, page \in ExclPages}
    /\ calls = NoCalls
    /\ date = NoDate
    /\ proj = NoProj
    /\ mcpServer = ConnectedServer
    /\ process = "running"

\* The filter is applied to the page.
FilterPage ==
    /\ excl.stage = "in"
    /\ excl' = [excl EXCEPT
                  !.stage = "once",
                  !.filtered = exclusionFilter(excl.studies,
                                               excl.exclusionKeywords)]
    /\ UNCHANGED <<callVars, nctVars, view, calls, date, proj, mcpServer, process>>

\* The filter is applied to the page it returned.
FilterAgain ==
    /\ excl.stage = "once"
    /\ excl' = [excl EXCEPT
                  !.stage = "twice",
                  !.again = exclusionFilter(excl.filtered,
                                            excl.exclusionKeywords)]
    /\ UNCHANGED <<callVars, nctVars, view, calls, date, proj, mcpServer, process>>

NextExcl ==
    \/ FilterPage
    \/ FilterAgain

SpecExcl == InitExcl /\ [][NextExcl]_vars

(***************************************************************************)
(* Concurrent tool calls.  A handler is an async method: what it keeps     *)
(* across its awaits (args, params, the responses, the result) are locals  *)
(* of its invocation, its frame.  Next to its frame a call slot holds a    *)
(* record of what the call was given and of the answers to its requests.   *)
(***************************************************************************)
FrameOf(p, e, t, a, log, r, o) ==
    [pc |-> p, entry |-> e, tool |-> t, args |-> a, sent |-> log, ref |-> r,
     out |-> o]

IdleFrame == FrameOf("idle", "mcp", UnknownTool, <<>>, <<>>, NoStudy, NoOutcome)

\* The dispatcher's switch and the handler's synchronous prefix.
Begin(e, t, a) ==
    IF t \notin ToolNames
    THEN FrameOf("done", e, t, a, <<>>, NoStudy, DispatchUnknownTool(e))
    ELSE IF HandlerThrowsInvalidParams(t, a)
         THEN FrameOf("done", e, t, a, <<>>, NoStudy,
                      Dispatch(e, InvalidParamsError))
         ELSE FrameOf("await", e, t, a, <<Request(FirstParams(t, a, NoClock))>>,
                      NoStudy, NoOutcome)

\* What the upstream does with a request: a 2xx answer with a page, a 2xx
\* answer with a null body, or a failure.
AnswerOf(k, p, e) == [kind |-> k, page |-> p, err |-> e]

\* The handler from its await on, given the answer to the request in flight.
Resume(f, answer) ==
    CASE answer.kind = "failed" ->
           [f EXCEPT !.pc = "done",
                     !.sent = Answered(f.sent, "failed", 0),
                     !.out = Dispatch(f.entry,
                                      AxiosErrorResult(f.tool, answer.err))]
      [] answer.kind = "null_body" ->
           [f EXCEPT !.pc = "done",
                     !.sent = Answered(f.sent, "null_body", 0),
                     !.out = Dispatch(f.entry, BodyTypeError)]
      [] answer.kind = "ok" /\ f.tool # "get_similar_studies" ->
           [f EXCEPT !.pc = "done",
                     !.sent = Answered(f.sent, "ok", Len(answer.page)),
                     !.ref = IF f.tool = "get_study_details" /\ answer.page # <<>>
                             THEN answer.page[1] ELSE @,
                     !.out = Dispatch(f.entry,
                                      ResultOnPage(f.tool, answer.page))]
      [] answer.kind = "ok" /\ f.tool = "get_similar_studies"
           /\ Len(f.sent) = 1 /\ answer.page = <<>> ->
           [f EXCEPT !.pc = "done",
                     !.sent = Answered(f.sent, "ok", 0),
                     !.out = Dispatch(f.entry, NotFoundResult(f.tool))]
      [] answer.kind = "ok" /\ f.tool = "get_similar_studies"
           /\ Len(f.sent) = 1 /\ answer.page # <<>> ->
           [f EXCEPT !.ref = answer.page[1],
                     !.sent = Append(
                         Answered(f.sent, "ok", Len(answer.page)),
                         Request(handleGetSimilarStudiesSearchParams(
                                     f.args, answer.page[1])))]
      [] OTHER ->
           [f EXCEPT !.pc = "done",
                     !.sent = Answered(f.sent, "ok", Len(answer.page)),
                     !.out = Dispatch(f.entry, SuccessResult(f.tool))]

\* The calls that come in concurrently: entry, tool name, argument bag.
ConcCalls ==
    { <<"http", "search_by_condition",
        Put(<<>>, "condition", Str("diabetes"))>>,
      <<"mcp", "search_by_sponsor",
        Put(Put(<<>>, "sponsor", Str("diabetes")), "pageSize", Num(50))>>,
      <<"mcp", "get_similar_studies", Put(<<>>, "nctId", Str("NCT12345678"))>>,
      <<"http", "get_study_details", Put(<<>>, "nctId", Str("NCT1234567X"))>>,
      <<"mcp", "get_study_details", Put(<<>>, "nctId", Str("NCT12345678"))>>,
      <<"http", UnknownTool, <<>>>> }

ConcAnswers ==
    {AnswerOf("ok", page, [status |-> 0, hasMessage |-> FALSE]) :
        page \in {<<>>} \cup {<<s>> : s \in StudyPool}}
    \cup {AnswerOf("null_body", <<>>, [status |-> 0, hasMessage |-> FALSE])}
    \cup {AnswerOf("failed", <<>>, e) :
            e \in {[status |-> 0, hasMessage |-> FALSE],
                   [status |-> 500, hasMessage |-> TRUE]}}

CallSlots == 1..MaxCalls

\* A call slot: the frame of the invocation, the requests it has put on the
\* wire, and a record of what the call was given and of the answers to its
\* requests.
SlotOf(f, g, as, w) == [frame |-> f, given |-> g, answers |-> as, wire |-> w]

FreeSlot == SlotOf(IdleFrame, <<>>, <<>>, <<>>)

\* this.axiosInstance.get('/studies', { params }): the request as it leaves
\* the process, composed of the defaults of the shared axios instance and
\* the params object of the call.
axiosGet(instance, params) ==
    [baseURL |-> instance.baseURL, url |-> "/studies",
     timeout |-> instance.timeout, params |-> params]

\* What a stretch of a handler between two suspension points leaves behind:
\* the instance, the frame of its invocation, that invocation's requests.
RunOf(this, f, w) == [this |-> this, frame |-> f, wire |-> w]

\* The request a frame that has come to an await issues through the instance.
Issued(this, f) ==
    IF f.pc = "await"
    THEN <<axiosGet(this.axiosInstance, f.sent[Len(f.sent)].params)>>
    ELSE <<>>

\* A call from its dispatcher to its first await or its end, on the instance
\* as it finds it.  Dispatcher and handler read this.axiosInstance and
\* assign to no field of the instance.
BeginOn(this, e, t, a) ==
    LET f == Begin(e, t, a)
    IN  RunOf(this, f, Issued(this, f))

\* handleGetSimilarStudies with the reference record kept in a field of the
\* instance instead of the local referenceStudy.
ResumeOnReferenceField(this, f, w, answer) ==
    LET held == IF "referenceStudy" \in DOMAIN this
                THEN this.referenceStudy ELSE f.ref
        g == Resume(IF f.tool = "get_similar_studies" /\ Len(f.sent) = 2
                    THEN [f EXCEPT !.ref = held] ELSE f, answer)
    IN  RunOf(IF f.tool = "get_similar_studies" /\ Len(f.sent) = 1
                 /\ g.pc = "await"
              THEN [n \in DOMAIN this \cup {"referenceStudy"} |->
                       IF n = "referenceStudy" THEN g.ref ELSE this[n]]
              ELSE this,
              g, w \o Issued(this, g))

\* A handler from the await it is suspended at to its next await or its
\* end, on the instance as it finds it when the answer comes in.  What the
\* handler holds across the await (args, params, referenceStudy, the
\* response) are parameters and consts of the method body, so they are
\* those of the frame; the instance is read for the next request and is
\* not assigned to.
ResumeOn(this, f, w, answer) ==
    LET g == Resume(f, answer)
    IN  RunOf(this, g, w \o Issued(this, g))

InitConc ==
    /\ NothingElseRuns
    /\ view = NoView
    /\ excl = NoExcl
    /\ calls = [c \in CallSlots |-> FreeSlot]
    /\ date = NoDate
    /\ proj = NoProj
    /\ mcpServer = ClinicalTrialsServer
    /\ process = "running"

\* A call comes in on a free slot and runs up to its first await or its end.
\* A call through MCP is served by the request handler registered on
\* this.server, a call through HTTP by handleToolCall on the module's
\* mcpServer.
CallArrives(c) ==
    /\ Serving
    /\ calls[c].given = <<>>
    /\ \E call \in ConcCalls :
          /\ call[1] = "mcp" =>
                "tools/call" \in mcpServer.server.requestHandlers
          /\ LET after == BeginOn(mcpServer, call[1], call[2], call[3])
             IN  /\ calls' = [calls EXCEPT
                                ![c] = SlotOf(after.frame, call, <<>>, after.wire)]
                 /\ mcpServer' = after.this
    /\ UNCHANGED <<callVars, nctVars, view, excl, date, proj, process>>

\* The request in flight of call c is answered and its handler runs on.
CallResumes(c) ==
    /\ Serving
    /\ calls[c].given # <<>>
    /\ calls[c].frame.pc = "await"
    /\ \E answer \in ConcAnswers :
          LET after == ResumeOn(mcpServer, calls[c].frame, calls[c].wire, answer)
          IN  /\ calls' = [calls EXCEPT
                             ![c] = SlotOf(after.frame, @.given,
                                           Append(@.answers, answer), after.wire)]
              /\ mcpServer' = after.this
    /\ UNCHANGED <<callVars, nctVars, view, excl, date, proj, process>>

\* The caller of c has its answer; the frame is gone.
CallLeaves(c) ==
    /\ Serving
    /\ calls[c].given # <<>>
    /\ calls[c].frame.pc = "done"
    /\ calls' = [calls EXCEPT ![c] = FreeSlot]
    /\ UNCHANGED <<callVars, nctVars, view, excl, date, proj, mcpServer, process>>

Arrival == \E c \in CallSlots : CallArrives(c)

Resumption == \E c \in CallSlots : CallResumes(c)

Departure == \E c \in CallSlots : CallLeaves(c)

NextConc ==
    \/ run
    \/ Sigint
    \/ Exit
    \/ Arrival
    \/ Resumption
    \/ Departure

SpecConc == InitConc /\ [][NextConc]_vars

(***************************************************************************)
(* The query of get_study_timeline on its own: the composer run on an      *)
(* argument bag and a clock reading of any hour, in any of a few time      *)
(* zones.                                                                  *)
(***************************************************************************)
\* Time zones, as the UTC offset in hours at the call and 30 days later:
\* UTC, a zone without daylight saving time on either side of UTC, and zones
\* whose daylight saving time ends or starts within the 30 days.
Zones == {<<0, 0>>, <<9, 9>>, <<-7, -7>>, <<2, 1>>, <<1, 2>>, <<-4, -5>>}

Clocks ==
    {Clock(d * 24 + h, z[1], z[2]) : d \in 1..(MaxDay + 1), h \in 0..23, z \in Zones}

InitDate ==
    /\ NothingElseRuns
    /\ view = NoView
    /\ excl = NoExcl
    /\ calls = NoCalls
    /\ date \in {DateOf("in", c, a, <<>>) :
                   c \in Clocks, a \in ArgBags("get_study_timeline")}
    /\ proj = NoProj
    /\ mcpServer = ConnectedServer
    /\ process = "running"

\* handleGetStudyTimeline composes its query at the clock reading date.clock.
ComposeTimeline ==
    /\ date.stage = "in"
    /\ date' = [date EXCEPT !.stage = "out",
                            !.params = handleGetStudyTimelineParams(date.args, date.clock)]
    /\ UNCHANGED <<callVars, nctVars, view, excl, calls, proj, mcpServer, process>>

NextDate == ComposeTimeline

SpecDate == InitDate /\ [][NextDate]_vars

(***************************************************************************)
(* The projections on their own: the part of a handler after the await     *)
(* that maps the fetched studies into its output.                          *)
(***************************************************************************)
InitProj ==
    /\ NothingElseRuns
    /\ view = NoView
    /\ excl = NoExcl
    /\ calls = NoCalls
    /\ date = NoDate
    /\ mcpServer = ConnectedServer
    /\ process = "running"
    /\ proj \in {ProjOf("in", t, Undef, page, <<>>, <<>>, 0, <<>>) :
                   t \in SummaryTools, page \in ProjPages}
               \cup
               {ProjOf("in", "get_trial_statistics", g, page, <<>>, <<>>, 0, <<>>) :
                   g \in GroupByValues, page \in ProjPages}

\* A tool of the summary shape maps the studies into its results: of each
\* output study the keys of the summary, and the eligibility key where the
\* tool sets one.
ProjectPage ==
    /\ proj.stage = "in"
    /\ proj.tool \in SummaryTools
    /\ proj' = [proj EXCEPT
                  !.stage = "out",
                  !.results = [i \in DOMAIN proj.studies |->
                                 outputSummary(proj.tool, proj.studies[i])],
                  !.eligibility =
                      IF proj.tool \in EligibilityTools
                      THEN [i \in DOMAIN proj.studies |->
                              outputEligibility(proj.tool, proj.studies[i])]
                      ELSE <<>>]
    /\ UNCHANGED <<callVars, nctVars, view, excl, calls, date, mcpServer, process>>

\* get_trial_statistics counts the studies of the page.
CountPage ==
    /\ proj.stage = "in"
    /\ proj.tool = "get_trial_statistics"
    /\ proj' = [proj EXCEPT
                  !.stage = "out",
                  !.analyzedStudies = Len(proj.studies),
                  !.statistics = calculateStatistics(proj.studies, proj.groupBy)]
    /\ UNCHANGED <<callVars, nctVars, view, excl, calls, date, mcpServer, process>>

NextProj == ProjectPage \/ CountPage

SpecProj == InitProj /\ [][NextProj]_vars

(***************************************************************************)
(* Properties.                                                             *)
(***************************************************************************)
\* The identifiers of the model's tool calls that are well formed.
WellFormedIds == {"NCT12345678", "NCT00000000"}

\* A value that is missing or empty: undefined, null or the empty string.
Missing(v) == v \in {Undef, Null, Str("")}

\* The call in progress lacks its required argument, or its nctId is
\* missing or malformed.
LacksRequiredArgument ==
    \/ /\ tool \in {"get_study_details", "get_similar_studies"}
       /\ \/ Missing(Arg(args, "nctId"))
          \/ Arg(args, "nctId").s \notin WellFormedIds
    \/ /\ tool \in {"search_by_condition", "search_by_sponsor",
                    "search_by_intervention", "search_by_primary_outcome",
                    "search_rare_diseases"}
       /\ Missing(Arg(args, RequiredArg(tool)))

\* The outcome is the handler's InvalidParams error: the McpError itself on
\* the MCP side, the envelope of handleToolCall's catch block on the HTTP side.
IsClientArgumentError(o) ==
    \/ o.via = "mcp_error" /\ o.code = "InvalidParams"
    \/ /\ o.via = "http"
       /\ o.success = "false"
       /\ o.msg = "argument_required"

\* C1: a call to get_study_details or get_similar_studies whose nctId is
\* missing or malformed, and a call to one of the five searches with a
\* required argument whose required argument is missing or empty, ends in a
\* client argument error and issues no upstream request at any point.
C1_RejectedBeforeAnyRequest ==
    (pc # "idle" /\ LacksRequiredArgument) =>
        /\ sent = <<>>
        /\ pc = "done"
        /\ IsClientArgumentError(out)

\* A call with a malformed identifier has ended, through the HTTP dispatcher.
C1_Witness ==
    /\ pc = "done"
    /\ entry = "http"
    /\ tool = "get_similar_studies"
    /\ Arg(args, "nctId") = Str("NCT1234567X")
    /\ sent = <<>>
    /\ IsClientArgumentError(out)

\* C2: the identifier check accepts a string if and only if it is exactly
\* 'NCT' followed by exactly 8 decimal digits, 11 characters in all.
C2_AcceptsExactlyNctPlus8Digits ==
    verdict # "none" =>
        (verdict = "valid" <=>
            /\ Len(cand) = 11
            /\ cand[1] = "N" /\ cand[2] = "C" /\ cand[3] = "T"
            /\ \A i \in 4..11 : cand[i] \in Digits)

\* A 12-character string whose first 11 characters are well formed has been
\* rejected.
C2_Witness ==
    /\ verdict = "invalid"
    /\ Len(cand) = 12
    /\ cand[1] = "N" /\ cand[2] = "C" /\ cand[3] = "T"
    /\ \A i \in 4..11 : cand[i] \in Digits

\* C3: for every tool that accepts pageSize, the pageSize sent upstream is
\* always within [1, the tool's maximum]; a value outside that range is
\* never forwarded as given.
C3_PageSizeWithinRange ==
    (tool \in ToolNames /\ TakesPageSize(tool)) =>
        \A i \in 1..Len(sent) :
            /\ sent[i].params["pageSize"].t = "number"
            /\ sent[i].params["pageSize"].n >= 1
            /\ sent[i].params["pageSize"].n <= PageSizeMax(tool)

\* The arguments of a tool that its handler does not require.
OptionalArgs(t) ==
    ArgNames(t) \ {RequiredArg(t), IF t \in {"get_study_details",
                                             "get_similar_studies"}
                                   THEN "nctId" ELSE ""}

\* Every optional argument of the call in progress is absent or empty:
\* undefined, null or the empty string.
AllOptionalEmpty ==
    \A name \in OptionalArgs(tool) : Missing(Arg(args, name))

\* C4 as stated: with every optional argument absent or empty, the only keys
\* of the composed query are format and pageSize.
C4_OnlyFormatAndPageSize ==
    (tool \in ToolNames /\ AllOptionalEmpty) =>
        \A i \in 1..Len(sent) :
            DOMAIN sent[i].params = {"format", "pageSize"}

\* The keys of a tool's first query, besides format and pageSize, whose
\* value is not the value of an optional argument: the key of its required
\* argument, the filters the tool forces, and the keys the switch on ageRange
\* or on timelineType (CURRENT when falsy) sets; neither switch has a
\* default case.
OwnKeys(t, a) ==
    CASE t = "get_study_details" -> {"query.term", "filter.ids"}
      [] t = "get_similar_studies" -> {"query.term"}
      [] t = "search_by_condition" -> {"query.cond"}
      [] t = "search_by_sponsor" -> {"query.spons"}
      [] t = "search_by_intervention" -> {"query.intr"}
      [] t = "search_by_primary_outcome" -> {"query.outc"}
      [] t = "search_rare_diseases" -> {"query.cond", "query.term"}
      [] t = "get_recruiting_studies" -> {"filter.overallStatus"}
      [] t = "get_studies_with_results" ->
           {"filter.overallStatus", "filter.hasResults"}
      [] t = "get_pediatric_studies" ->
           {"filter.stdAge"} \cup
           (IF Arg(a, "ageRange") \in
                 {Str("INFANT"), Str("CHILD"), Str("ADOLESCENT")}
            THEN {"filter.minimumAge", "filter.maximumAge"} ELSE {})
      [] t = "get_study_timeline" ->
           LET type == IF Truthy(Arg(a, "timelineType"))
                       THEN Arg(a, "timelineType") ELSE Str("CURRENT")
           IN  CASE type \in {Str("CURRENT"), Str("COMPLETED")} ->
                      {"filter.overallStatus"}
                 [] type = Str("UPCOMING") ->
                      {"filter.overallStatus", "filter.studyStartDateFrom"}
                 [] OTHER -> {}
      [] OTHER -> {}

\* C4, read with the keys that do not stem from an optional argument
\* allowed: with every optional argument absent or empty, the first query of
\* a call holds format, pageSize and the tool's own keys and nothing else, so
\* that it is exactly {format, pageSize} for the six tools without own keys
\* (search_by_eligibility_criteria among them); the second query of
\* get_similar_studies holds format, pageSize and, when the reference record
\* has a non-empty first condition, query.cond.
C4_NoKeyFromEmptyOptionalArgument ==
    (tool \in ToolNames /\ AllOptionalEmpty) =>
        /\ Len(sent) >= 1 =>
             DOMAIN sent[1].params = {"format", "pageSize"} \cup OwnKeys(tool, args)
        /\ Len(sent) >= 2 =>
             DOMAIN sent[2].params =
                 {"format", "pageSize"} \cup
                 (IF ref.conditions # <<>> /\ ref.conditions[1] # ""
                  THEN {"query.cond"} ELSE {})

\* C5: in every composed upstream query no key is present with an
\* empty-string, null or undefined value.
C5_NoEmptyValueInQuery ==
    \A i \in 1..Len(sent) :
        \A k \in DOMAIN sent[i].params : ~Missing(sent[i].params[k])

\* C6: one call issues at most one upstream request (two for
\* get_similar_studies, the second only once the first has been answered),
\* and a failed request is the last request of its call.
C6_AtMostOneRequestNoRetry ==
    /\ Len(sent) <= (IF tool = "get_similar_studies" THEN 2 ELSE 1)
    /\ \A i \in 1..Len(sent) :
          /\ i < Len(sent) => sent[i].st = "ok"
          /\ sent[i].st = "failed" => pc = "done"
          /\ sent[i].st = "pending" => pc = "await"

\* The reference lookup of get_similar_studies has failed and the call has
\* ended with that single request.
C6_Witness ==
    /\ pc = "done"
    /\ tool = "get_similar_studies"
    /\ Len(sent) = 1
    /\ sent[1].st = "failed"

\* A request of the call in progress has failed.
SomeRequestFailed == \E i \in 1..Len(sent) : sent[i].st = "failed"

\* A request of the call in progress was answered with a null body.
SomeNullBody == \E i \in 1..Len(sent) : sent[i].st = "null_body"

\* The kinds of data a successful result holds.
ResultData ==
    {"studies", "study_details", "statistics", "similar_studies",
     "international_studies"}

\* The sentences a handler writes about an upstream failure.
FailureMessages == {"upstream_message", "axios_error_message", "study_not_found"}

\* The sentences a handler writes when a lookup finds no record.
NotFoundMessages == {"no_study_found", "reference_study_not_found"}

\* The outcome is marked as an error, in whichever way its channel has.
ErrorTagged(o) ==
    \/ o.isError = "true"
    \/ o.success = "false"
    \/ o.via = "mcp_error"

\* C7: if an upstream request of the call fails, the result of the call is
\* error-tagged and carries the failure's diagnostic message (the upstream
\* message when available, otherwise a generic one), and is never a success
\* result holding studies, statistics or other derived data.
C7_FailureSurfacesWithDiagnostic ==
    (pc = "done" /\ SomeRequestFailed) =>
        /\ ErrorTagged(out)
        /\ out.msg \in FailureMessages
        /\ out.data \notin ResultData

\* C8: in every response, isError=true implies that data is a diagnostic
\* string and not a result set.
C8_IsErrorCarriesDiagnostic ==
    out.isError = "true" =>
        /\ out.data = "diagnostic"
        /\ out.msg \in FailureMessages \cup NotFoundMessages

\* A result with isError=true has gone out: the reference study of a
\* get_similar_studies call was not found.
C8_Witness ==
    /\ pc = "done"
    /\ out.isError = "true"
    /\ out.msg = "reference_study_not_found"

\* The identifier lookup of the call was answered 2xx with no record.
LookupFoundNothing ==
    /\ pc = "done"
    /\ tool \in {"get_study_details", "get_similar_studies"}
    /\ Len(sent) = 1
    /\ sent[1].st = "ok"
    /\ sent[1].got = 0

\* C9: a get_similar_studies or get_study_details call whose lookup succeeds
\* with zero records yields a successful envelope with isError=true and a
\* not-found message, not a failure envelope and not a protocol error.
C9_NotFoundIsSuccessfulEnvelope ==
    LookupFoundNothing =>
        /\ out.via \in {"mcp_result", "http"}
        /\ out.via = "http" => out.success = "true"
        /\ out.isError = "true"
        /\ out.msg \in NotFoundMessages

\* C10 as stated: whatever the tool name and the bag, the dispatcher returns
\* an envelope and no exception leaves it.
C10_NoExceptionLeavesDispatcher ==
    pc = "done" => out.via \in {"mcp_result", "http"}

\* C10, amended: handleToolCall always answers and lets nothing escape: a
\* client argument error, an upstream failure or an unexpected exception
\* ends in its 500 envelope {success: false, tool, error}, an unknown tool in
\* its 404 answer.  The MCP request handler returns a tool result with
\* isError=true for an upstream failure and throws an McpError for every
\* other error: InvalidParams for a client argument error, MethodNotFound
\* for an unknown tool, InternalError for an unexpected exception.
C10_HttpAlwaysAnswersMcpThrowsMcpError ==
    pc = "done" =>
        /\ entry = "http" =>
             /\ out.via = "http"
             /\ (LacksRequiredArgument \/ SomeRequestFailed \/ SomeNullBody) =>
                  /\ out.status = 500
                  /\ out.success = "false"
                  /\ out.keys = {"success", "tool", "error"}
             /\ tool = UnknownTool => out.status = 404
        /\ entry = "mcp" =>
             /\ out.via \in {"mcp_result", "mcp_error"}
             /\ LacksRequiredArgument <=>
                  (out.via = "mcp_error" /\ out.code = "InvalidParams")
             /\ tool = UnknownTool <=>
                  (out.via = "mcp_error" /\ out.code = "MethodNotFound")
             /\ SomeNullBody <=>
                  (out.via = "mcp_error" /\ out.code = "InternalError")
             /\ SomeRequestFailed =>
                  (out.via = "mcp_result" /\ out.isError = "true")

\* An unexpected exception (the TypeError on a null body) was caught by
\* handleToolCall and answered with its 500 envelope.
C10_Witness ==
    /\ pc = "done"
    /\ entry = "http"
    /\ SomeNullBody
    /\ out.status = 500
    /\ out.msg = "type_error"

\* C11: a call with a tool name outside the 17 registered names issues no
\* upstream request and ends in a not-found error (HTTP 404 {error}, or the
\* McpError MethodNotFound), and no call of a registered tool, whatever its
\* outcome and in particular with zero studies found, ends in that error.
C11_UnknownToolIsDistinctNotFound ==
    pc = "done" =>
        /\ tool = UnknownTool =>
             /\ sent = <<>>
             /\ out.msg = "unknown_tool"
             /\ entry = "http" => (out.status = 404 /\ out.keys = {"error"})
             /\ entry = "mcp" =>
                  (out.via = "mcp_error" /\ out.code = "MethodNotFound")
        /\ tool \in ToolNames =>
             /\ out.msg # "unknown_tool"
             /\ out.status # 404
             /\ out.code # "MethodNotFound"

\* An unknown tool name has been answered 404 by handleToolCall without any
\* upstream request.
C11_Witness ==
    /\ pc = "done"
    /\ entry = "http"
    /\ tool = UnknownTool
    /\ sent = <<>>
    /\ out.status = 404

\* C12: every envelope handleToolCall returns for one of the 17 tools, for
\* success and error outcomes alike, contains the four boundary fields
\* success, tool, data and isError.
C12_EnvelopeHasBoundaryFields ==
    (pc = "done" /\ entry = "http" /\ tool \in ToolNames) =>
        {"success", "tool", "data", "isError"} \subseteq out.keys

\* C17: in get_similar_studies the search request is issued only after the
\* reference lookup was answered with at least one record; when the lookup
\* fails, has a null body or holds no record, the call ends with that single
\* request.
C17_SearchOnlyAfterReferenceFound ==
    (tool = "get_similar_studies" /\ Len(sent) >= 1) =>
        /\ Len(sent) = 2 => (sent[1].st = "ok" /\ sent[1].got >= 1)
        /\ (\/ sent[1].st \in {"failed", "null_body"}
            \/ sent[1].st = "ok" /\ sent[1].got = 0) =>
               (Len(sent) = 1 /\ pc = "done")

\* The reference lookup was answered without a record and the call has ended
\* after that one request.
C17_Witness ==
    /\ pc = "done"
    /\ tool = "get_similar_studies"
    /\ Len(sent) = 1
    /\ sent[1].st = "ok"
    /\ sent[1].got = 0
    /\ out.via = "mcp_result"

\* The key and value the search of get_similar_studies takes from the
\* reference record, as a set of at most one <<key, value>> pair.
SimilarityTerm ==
    LET given == Arg(args, "similarityType")
        type == IF Truthy(given) THEN given ELSE Str("CONDITION")
    IN  CASE type = Str("CONDITION") ->
               IF ref.conditions # <<>> /\ ref.conditions[1] # ""
               THEN {<<"query.cond", Str(ref.conditions[1])>>} ELSE {}
          [] type = Str("SPONSOR") ->
               IF ref.sponsor \notin {Undef, Null, Str("")}
               THEN {<<"query.spons", ref.sponsor>>} ELSE {}
          [] type = Str("PHASE") ->
               IF ref.phases # <<>> /\ ref.phases[1] # ""
               THEN {<<"filter.phase", Str(ref.phases[1])>>} ELSE {}
          [] OTHER -> {}

\* C18: the search of get_similar_studies is derived from the reference
\* record by similarityType (default CONDITION): CONDITION sets query.cond to
\* the first condition, SPONSOR query.spons to the lead sponsor's name, PHASE
\* filter.phase to the first phase; when that field is absent or empty the
\* search is issued all the same with the key omitted, no key holds an empty
\* string, and the call answered by the upstream ends in a success result.
C18_SearchDerivedFromReference ==
    (tool = "get_similar_studies" /\ Len(sent) = 2
       /\ Arg(args, "similarityType") \in
            {Undef, Null, Str(""), Str("CONDITION"), Str("SPONSOR"),
             Str("PHASE")}) =>
        LET p == sent[2].params
        IN  /\ DOMAIN p = {"format", "pageSize"} \cup {kv[1] : kv \in SimilarityTerm}
            /\ \A kv \in SimilarityTerm : p[kv[1]] = kv[2]
            /\ \A k \in DOMAIN p : p[k] # Str("")
            /\ (pc = "done" /\ sent[2].st = "ok") =>
                 (out.via \in {"mcp_result", "http"} /\ out.data = "similar_studies")

\* The search by SPONSOR was issued for a reference record without a lead
\* sponsor, with format and pageSize only.
C18_Witness ==
    /\ tool = "get_similar_studies"
    /\ Len(sent) = 2
    /\ Arg(args, "similarityType") = Str("SPONSOR")
    /\ ref.sponsor = Undef
    /\ DOMAIN sent[2].params = {"format", "pageSize"}

\* The eligibility view has run.
EligibilityViewDone ==
    view.stage = "out" /\ view.tool = "search_by_eligibility_criteria"

\* C13: in search_by_eligibility_criteria the reported totalCount is the
\* upstream's totalCount (0 when the upstream gives none) whatever
\* exclusionKeywords are, exclusion only shrinks the studies list and
\* resultsShown, and inclusionKeywords go upstream as query.eligibility and
\* never filter the page: without exclusionKeywords every fetched record is
\* output.
C13_TotalCountKeptInclusionSentUpstream ==
    EligibilityViewDone =>
        LET inclusion == Arg(view.args, "inclusionKeywords")
            exclusion == Arg(view.args, "exclusionKeywords")
        IN  /\ view.result.totalCount =
                 (IF view.body.totalCount = Undef THEN Num(0)
                  ELSE view.body.totalCount)
            /\ view.result.resultsShown = Len(view.result.studies)
            /\ Len(view.result.studies) <= Len(view.body.studies)
            /\ exclusion \in {Undef, Str("")} =>
                 view.result.studies = IdsOf(view.body.studies)
            /\ inclusion \notin {Undef, Str("")} =>
                 /\ "query.eligibility" \in DOMAIN view.sent[1]
                 /\ view.sent[1]["query.eligibility"] = inclusion
            /\ inclusion \in {Undef, Str("")} =>
                 "query.eligibility" \notin DOMAIN view.sent[1]

\* Exclusion keywords have dropped a record of a page whose upstream
\* totalCount is 450, and the result still reports 450.
C13_Witness ==
    /\ EligibilityViewDone
    /\ Arg(view.args, "exclusionKeywords") = Str("a")
    /\ Arg(view.args, "inclusionKeywords") = Str("a")
    /\ view.body.totalCount = Num(450)
    /\ view.result.totalCount = Num(450)
    /\ view.result.resultsShown < Len(view.body.studies)

\* The international view has run.
InternationalViewDone ==
    view.stage = "out" /\ view.tool = "search_international_studies"

\* A record qualifies as international: at least 2 distinct countries, at
\* least minCountries when that is given, and not the excluded country.
QualifiesAsInternational(study) ==
    LET distinct == {study.locations[i] : i \in DOMAIN study.locations}
        minCountries == Arg(view.args, "minCountries")
        excludeCountry == Arg(view.args, "excludeCountry")
    IN  /\ Cardinality(distinct) >= 2
        /\ minCountries.t = "number" => Cardinality(distinct) >= minCountries.n
        /\ excludeCountry \notin {Undef, Str("")} =>
             excludeCountry.s \notin distinct

\* C14: search_international_studies outputs a fetched record if and only if
\* it has at least 2 distinct location countries, at least minCountries when
\* given, and not excludeCountry when given; the records are output in
\* upstream order.
C14_OutputIffInternational ==
    InternationalViewDone =>
        view.result.studies =
            IdsOf(SelectSeq(view.body.studies, QualifiesAsInternational))

\* With minCountries = 4 a record with 3 distinct countries was fetched and
\* is not output, while a record with 4 is.
C14_Witness ==
    /\ InternationalViewDone
    /\ Arg(view.args, "minCountries") = Num(4)
    /\ \E i \in DOMAIN view.body.studies :
          view.body.studies[i].nctId = "NCT00000005"
    /\ view.result.studies = <<"NCT00000006">>

\* The similarity view has run.
SimilarViewDone == view.stage = "out" /\ view.tool = "get_similar_studies"

\* The record is not the reference study of the call.
IsNotTheReference(study) == study.nctId # Arg(view.args, "nctId").s

\* C15: no study whose identifier equals the requested nctId appears in
\* similarStudies, and every other study of the secondary response appears
\* in it, in upstream order.
C15_ReferenceExcludedOthersKept ==
    SimilarViewDone =>
        /\ \A j \in DOMAIN view.result.studies :
              view.result.studies[j] # Arg(view.args, "nctId").s
        /\ view.result.studies =
              IdsOf(SelectSeq(view.body.studies, IsNotTheReference))

\* The secondary response held the reference study and another study, and
\* only the other one is output.
C15_Witness ==
    /\ SimilarViewDone
    /\ Arg(view.args, "nctId") = Str("NCT12345678")
    /\ IdsOf(view.body.studies) = <<"NCT12345678", "NCT00000001">>
    /\ view.result.studies = <<"NCT00000001">>

\* The whitespace-delimited tokens of a text: its maximal runs of characters
\* that are not whitespace.
Tokens(text) ==
    {SubSeq(text, ij[1], ij[2]) :
        ij \in {x \in (1..Len(text)) \X (1..Len(text)) :
                  /\ x[1] <= x[2]
                  /\ \A k \in x[1]..x[2] : text[k] \notin Whitespace
                  /\ x[1] = 1 \/ text[x[1] - 1] \in Whitespace
                  /\ x[2] = Len(text) \/ text[x[2] + 1] \in Whitespace}}

\* The lower-cased criteria text of a record, empty when it has none.
LowerCriteria(study) ==
    IF study.eligibilityCriteria.has
    THEN toLowerCase(study.eligibilityCriteria.chars)
    ELSE <<>>

\* C19: the exclusion filter drops a record exactly when its lower-cased
\* criteria text contains, as a substring, at least one whitespace-delimited
\* token of the lower-cased exclusion phrase.
C19_DroppedIffTextHoldsAToken ==
    excl.stage \in {"once", "twice"} =>
        \A i \in DOMAIN excl.studies :
            (excl.studies[i] \notin SetOf(excl.filtered)) <=>
                \E token \in Tokens(toLowerCase(excl.exclusionKeywords)) :
                    includes(LowerCriteria(excl.studies[i]), token)

\* a is b with some elements left out, in the same order.
RECURSIVE IsSubsequence(_, _)
IsSubsequence(a, b) ==
    IF a = <<>> THEN TRUE
    ELSE IF b = <<>> THEN FALSE
    ELSE IF Head(a) = Head(b) THEN IsSubsequence(Tail(a), Tail(b))
    ELSE IsSubsequence(a, Tail(b))

\* C20: the exclusion filter is order-preserving and idempotent: the
\* filtered page is a subsequence of the page, and filtering the filtered
\* page again with the same phrase returns it unchanged.
C20_FilterIdempotentOrderPreserving ==
    /\ excl.stage \in {"once", "twice"} =>
          IsSubsequence(excl.filtered, excl.studies)
    /\ excl.stage = "twice" => excl.again = excl.filtered

\* A page of two records was filtered down to its second record, and
\* filtering that again left it as it was.
C20_Witness ==
    /\ excl.stage = "twice"
    /\ Len(excl.studies) = 2
    /\ excl.filtered = <<excl.studies[2]>>
    /\ excl.studies[1] # excl.studies[2]
    /\ excl.again = excl.filtered

\* A call run on from a suspension point through the given answers, one
\* stretch per answer, with no other call in the process.
RECURSIVE ReplayOn(_, _, _, _)
ReplayOn(this, f, w, answers) ==
    IF answers = <<>> THEN RunOf(this, f, w)
    ELSE LET after == ResumeOn(this, f, w, Head(answers))
         IN  ReplayOn(after.this, after.frame, after.wire, Tail(answers))

\* A call run alone, on a freshly constructed and connected instance, on
\* the arguments it was given and on the answers to its own requests.
Alone(given, answers) ==
    LET after == BeginOn(ConnectedServer, given[1], given[2], given[3])
    IN  ReplayOn(after.this, after.frame, after.wire, answers)

\* C16: for any interleaving of concurrent calls at their awaits, the
\* queries a call has composed, the requests it has issued and its result
\* are those of that call run alone on its own arguments and on the answers
\* to its own requests, and the instance the calls share is as its
\* constructor left it but for the transport, which run() connects and the
\* SIGINT listener closes: no call has written to it.
C16_CallsDoNotInterfere ==
    /\ close(mcpServer) = ClinicalTrialsServer
    /\ \A c \in DOMAIN calls :
          IF calls[c].given = <<>>
          THEN calls[c].frame = IdleFrame /\ calls[c].wire = <<>>
          ELSE LET after == Alone(calls[c].given, calls[c].answers)
               IN  /\ calls[c].frame = after.frame
                   /\ calls[c].wire = after.wire

\* Two get_similar_studies calls are in the process, each with a reference
\* record of its own from its lookup; the first has issued its second
\* request while the second, which got its reference later, has run to its
\* end.
C16_Witness ==
    /\ DOMAIN calls # {}
    /\ calls[1].frame.tool = "get_similar_studies"
    /\ calls[2].frame.tool = "get_similar_studies"
    /\ calls[1].frame.pc = "await"
    /\ Len(calls[1].wire) = 2
    /\ calls[1].wire[2].baseURL = API_BASE_URL
    /\ calls[2].frame.pc = "done"
    /\ Len(calls[2].frame.sent) = 2
    /\ calls[1].frame.ref # calls[2].frame.ref

\* The non-empty values of a list of argument values, joined by ", ".
RECURSIVE JoinGiven(_)
JoinGiven(values) ==
    IF values = <<>> THEN ""
    ELSE LET rest == JoinGiven(Tail(values))
         IN  IF ~Truthy(Head(values)) THEN rest
             ELSE IF rest = "" THEN Head(values).s
             ELSE Head(values).s \o ", " \o rest

\* C21: search_by_location sends as query.locn the non-empty values among
\* country, state, city and facilityName, in that order, joined by a comma
\* (followed by a space), and sends no query.locn when all four are empty;
\* filter.distance is sent, with the given distance, exactly when both a
\* distance and a city were given.
C21_LocationTermAndDistance ==
    (tool = "search_by_location" /\ Len(sent) >= 1) =>
        LET p == sent[1].params
            term == JoinGiven(<<Arg(args, "country"), Arg(args, "state"),
                                Arg(args, "city"), Arg(args, "facilityName")>>)
            distanceAndCity == Truthy(Arg(args, "distance"))
                                 /\ Truthy(Arg(args, "city"))
        IN  /\ ("query.locn" \in DOMAIN p) <=> (term # "")
            /\ "query.locn" \in DOMAIN p => p["query.locn"] = Str(term)
            /\ ("filter.distance" \in DOMAIN p) <=> distanceAndCity
            /\ distanceAndCity => p["filter.distance"] = Arg(args, "distance")

\* A search by state and city was sent: the term names the state first.
C21_Witness ==
    /\ tool = "search_by_location"
    /\ Len(sent) = 1
    /\ Truthy(Arg(args, "state"))
    /\ Truthy(Arg(args, "city"))
    /\ sent[1].params["query.locn"] =
         Str(Arg(args, "state").s \o ", " \o Arg(args, "city").s)

\* C22: every request of get_recruiting_studies carries filter.overallStatus
\* RECRUITING, every request of get_studies_with_results carries
\* filter.overallStatus COMPLETED and filter.hasResults true, and every
\* request of get_pediatric_studies carries filter.stdAge CHILD; an ageRange
\* of INFANT, CHILD or ADOLESCENT adds the minimum and maximum age 0 and 2,
\* 2 and 12, 12 and 18 years, and no age pair is sent when ageRange is absent.
C22_ForcedFilters ==
    Len(sent) >= 1 =>
        LET p == sent[1].params
            ageRange == Arg(args, "ageRange")
            AgePair(lo, hi) ==
                /\ {"filter.minimumAge", "filter.maximumAge"} \subseteq DOMAIN p
                /\ p["filter.minimumAge"] = Str(lo)
                /\ p["filter.maximumAge"] = Str(hi)
        IN  /\ tool = "get_recruiting_studies" =>
                 /\ "filter.overallStatus" \in DOMAIN p
                 /\ p["filter.overallStatus"] = Str("RECRUITING")
            /\ tool = "get_studies_with_results" =>
                 /\ {"filter.overallStatus", "filter.hasResults"} \subseteq DOMAIN p
                 /\ p["filter.overallStatus"] = Str("COMPLETED")
                 /\ p["filter.hasResults"] = Bool(TRUE)
            /\ tool = "get_pediatric_studies" =>
                 /\ "filter.stdAge" \in DOMAIN p
                 /\ p["filter.stdAge"] = Str("CHILD")
                 /\ ageRange = Str("INFANT") => AgePair("0 Years", "2 Years")
                 /\ ageRange = Str("CHILD") => AgePair("2 Years", "12 Years")
                 /\ ageRange = Str("ADOLESCENT") => AgePair("12 Years", "18 Years")
                 /\ ageRange \in {Undef, Null} =>
                      {"filter.minimumAge", "filter.maximumAge"} \cap DOMAIN p = {}

\* A pediatric search for adolescents was sent with the pair 12 and 18 years.
C22_Witness ==
    /\ tool = "get_pediatric_studies"
    /\ Len(sent) = 1
    /\ Arg(args, "ageRange") = Str("ADOLESCENT")
    /\ sent[1].params["filter.stdAge"] = Str("CHILD")
    /\ sent[1].params["filter.minimumAge"] = Str("12 Years")
    /\ sent[1].params["filter.maximumAge"] = Str("18 Years")

\* The calendar dates of the instant 30 days (720 hours) after a clock
\* reading: the date in UTC and the date in the process's time zone.
DatesThirtyDaysAfter(clock) ==
    {DateStr((clock.utc + 30 * 24) \div 24),
     DateStr((clock.utc + 30 * 24 + clock.offsetLater) \div 24)}

\* C23: get_study_timeline sets filter.overallStatus from timelineType
\* (CURRENT when absent): CURRENT gives the one value
\* "RECRUITING,NOT_YET_RECRUITING,ACTIVE_NOT_RECRUITING", COMPLETED gives
\* COMPLETED, UPCOMING gives NOT_YET_RECRUITING and a
\* filter.studyStartDateFrom equal to the calendar date 30 days after the
\* moment of the call (read in UTC or in the zone of the process); CURRENT
\* and COMPLETED set no filter.studyStartDateFrom.
C23_TimelineStatusAndStartDate ==
    date.stage = "out" =>
        LET p == date.params
            type == Arg(date.args, "timelineType")
            Status(v) == /\ "filter.overallStatus" \in DOMAIN p
                         /\ p["filter.overallStatus"] = Str(v)
        IN  /\ type \in {Undef, Null, Str("CURRENT")} =>
                 /\ Status("RECRUITING,NOT_YET_RECRUITING,ACTIVE_NOT_RECRUITING")
                 /\ "filter.studyStartDateFrom" \notin DOMAIN p
            /\ type = Str("COMPLETED") =>
                 /\ Status("COMPLETED")
                 /\ "filter.studyStartDateFrom" \notin DOMAIN p
            /\ type = Str("UPCOMING") =>
                 /\ Status("NOT_YET_RECRUITING")
                 /\ "filter.studyStartDateFrom" \in DOMAIN p
                 /\ p["filter.studyStartDateFrom"] \in
                      DatesThirtyDaysAfter(date.clock)

\* C28: in get_similar_studies and get_study_details the record taken as the
\* requested study (the similarity reference, the study whose details are
\* returned) has the identifier the caller asked for, whatever records the
\* upstream lookup returns.
C28_RequestedStudyHasRequestedId ==
    (tool \in {"get_similar_studies", "get_study_details"} /\ ref # NoStudy) =>
        Str(ref.nctId) = Arg(args, "nctId")

\* C30: for every similarityType the schema accepts (CONDITION, INTERVENTION,
\* SPONSOR, PHASE), when the reference record has conditions, a lead sponsor
\* name and phases, the search of get_similar_studies carries a value of the
\* reference record: its keys are never format and pageSize alone.
C30_SearchRestrictedByReference ==
    (/\ tool = "get_similar_studies"
     /\ Len(sent) = 2
     /\ Arg(args, "similarityType") \in
          {Str("CONDITION"), Str("INTERVENTION"), Str("SPONSOR"), Str("PHASE")}
     /\ ref.conditions # <<>> /\ ref.conditions[1] # ""
     /\ Truthy(ref.sponsor)
     /\ ref.phases # <<>> /\ ref.phases[1] # "") =>
        LET p == sent[2].params
        IN  /\ DOMAIN p # {"format", "pageSize"}
            /\ \E k \in DOMAIN p \ {"format", "pageSize"} :
                  p[k] \in {Str(ref.conditions[1]), ref.sponsor, Str(ref.phases[1])}

\* C29: the exclusion filter keeps every record whose lower-cased criteria
\* text contains none of the words of the exclusion phrase, also when the
\* phrase starts or ends with whitespace or holds nothing but whitespace.
C29_RecordWithoutExcludedWordIsKept ==
    excl.stage \in {"once", "twice"} =>
        \A i \in DOMAIN excl.studies :
            (\A word \in Tokens(toLowerCase(excl.exclusionKeywords)) :
                ~includes(LowerCriteria(excl.studies[i]), word)) =>
                    \E j \in DOMAIN excl.filtered :
                        excl.filtered[j] = excl.studies[i]

\* A projection of the summary shape has run.
SummaryProjected == proj.stage = "out" /\ proj.tool \in SummaryTools

\* v when it is a non-empty value, else the default d.
ValueOrDefault(v, d) == IF v \in {Undef, Null, Str("")} THEN Str(d) ELSE v

\* The fields of an output study other than conditions are as stated: the
\* record's identifier, title and status, its phases or ['Not specified']
\* when it has none, and the defaults of study type, sponsor and start date.
SummaryFieldsAsStated(study, summary) ==
    /\ DOMAIN summary = {"nctId", "title", "status", "phase", "studyType",
                         "sponsor", "conditions", "startDate"}
    /\ summary.nctId = study.nctId
    /\ summary.title = study.briefTitle
    /\ summary.status = study.overallStatus
    /\ summary.phase = IF study.phases.has THEN study.phases.items
                       ELSE <<"Not specified">>
    /\ summary.studyType = ValueOrDefault(study.studyType, "Unknown")
    /\ summary.sponsor = ValueOrDefault(study.sponsor, "Not specified")
    /\ summary.startDate = ValueOrDefault(study.startDate, "Not specified")

\* short is the first elements of list, at most 3 of them, in their order.
IsFirstThreeOf(short, list) ==
    /\ Len(short) = (IF Len(list) < 3 THEN Len(list) ELSE 3)
    /\ \A i \in DOMAIN short : short[i] = list[i]

\* C25 as stated: for every tool of the summary shape each output study has
\* the stated fields and defaults, and its conditions are at most the first
\* 3 conditions of the record in their order.
C25_SummaryShapeEveryTool ==
    SummaryProjected =>
        \A i \in DOMAIN proj.studies :
            /\ SummaryFieldsAsStated(proj.studies[i], proj.results[i])
            /\ IsFirstThreeOf(proj.results[i].conditions,
                              proj.studies[i].conditions.items)

\* C25, amended: for every tool of the summary shape each output study has
\* the stated fields and defaults; its conditions are at most the first 3
\* conditions of the record in their order, except in search_by_condition,
\* search_rare_diseases and get_pediatric_studies, where they are all the
\* conditions of the record.
C25_SummaryShapeConditionsByTool ==
    SummaryProjected =>
        \A i \in DOMAIN proj.studies :
            /\ SummaryFieldsAsStated(proj.studies[i], proj.results[i])
            /\ IF proj.tool \in {"search_by_condition", "search_rare_diseases",
                                 "get_pediatric_studies"}
               THEN proj.results[i].conditions = proj.studies[i].conditions.items
               ELSE IsFirstThreeOf(proj.results[i].conditions,
                                   proj.studies[i].conditions.items)

\* search_studies has projected a record of four conditions to its first
\* three, and a record without modules to the defaults.
C25_Witness ==
    /\ SummaryProjected
    /\ proj.tool = "search_studies"
    /\ proj.studies = <<FullStudy, BareStudy>>
    /\ proj.results[1].conditions = <<"diabetes", "obesity", "hypertension">>
    /\ proj.results[2].phase = <<"Not specified">>
    /\ proj.results[2].studyType = Str("Unknown")
    /\ proj.results[2].conditions = <<>>

\* C26: in search_by_eligibility_criteria every output study has an
\* eligibility block with the defaults sex 'Unknown', minimum and maximum age
\* 'Not specified' and healthyVolunteers false for missing fields, and a
\* criteriaPreview that is the criteria text cut to 200 characters (with or
\* without a mark of omission after it), or 'Not available' when the record
\* has no criteria text.
C26_EligibilityBlockDefaultsAndPreview ==
    (proj.stage = "out" /\ proj.tool = "search_by_eligibility_criteria") =>
        \A i \in DOMAIN proj.studies :
            LET study == proj.studies[i]
                block == proj.eligibility[i]
                text == study.eligibilityCriteria.chars
                cut == SubSeq(text, 1, IF Len(text) < 200 THEN Len(text) ELSE 200)
            IN  /\ block.sex = ValueOrDefault(study.sex, "Unknown")
                /\ block.minimumAge = ValueOrDefault(study.minimumAge, "Not specified")
                /\ block.maximumAge = ValueOrDefault(study.maximumAge, "Not specified")
                /\ block.healthyVolunteers =
                     (IF study.healthyVolunteers = Bool(TRUE)
                      THEN Bool(TRUE) ELSE Bool(FALSE))
                /\ study.eligibilityCriteria.has =>
                     block.criteriaPreview \in
                        {cut, cut \o <<".", ".", ".">>}
                           \cup (IF text = <<>>
                                 THEN {CharsOf("Not available")} ELSE {})
                /\ ~study.eligibilityCriteria.has =>
                     block.criteriaPreview = CharsOf("Not available")

\* The statistics have been computed.
StatisticsDone == proj.stage = "out" /\ proj.tool = "get_trial_statistics"

\* The key a record is counted under, as stated: the status, the first
\* phase or condition, the study type, the sponsor's name, or the fallback
\* of the field when the record lacks it.
StatedKey(study, field) ==
    CASE field = "status" -> study.overallStatus.s
      [] field = "phase" ->
           IF study.phases.items = <<>> \/ study.phases.items[1] = ""
           THEN "Not specified" ELSE study.phases.items[1]
      [] field = "condition" ->
           IF study.conditions.items = <<>> \/ study.conditions.items[1] = ""
           THEN "Not specified" ELSE study.conditions.items[1]
      [] field = "sponsor" -> ValueOrDefault(study.sponsor, "Not specified").s
      [] field = "studyType" -> ValueOrDefault(study.studyType, "Unknown").s

\* The counts of the fetched studies by the stated key of a field.
StatedCounts(field) ==
    [key \in {StatedKey(proj.studies[i], field) : i \in DOMAIN proj.studies} |->
        Num(Cardinality({i \in DOMAIN proj.studies :
                            StatedKey(proj.studies[i], field) = key}))]

\* C24: get_trial_statistics without groupBy returns four views: the number
\* of fetched studies and their counts by status, by phase and by study
\* type; with a groupBy of the schema it returns only the counts by that
\* field. A record is counted under the first element of a list-valued field
\* (phase, condition), and under the fallback 'Not specified' (phase,
\* condition, sponsor) or 'Unknown' (study type) when it lacks the field.
C24_FourViewsOrCountsByField ==
    StatisticsDone =>
        /\ proj.groupBy \in {Undef, Null, Str("")} =>
             /\ DOMAIN proj.statistics =
                  {"totalStudies", "byStatus", "byPhase", "byStudyType"}
             /\ proj.statistics.totalStudies = Len(proj.studies)
             /\ proj.statistics.byStatus = StatedCounts("status")
             /\ proj.statistics.byPhase = StatedCounts("phase")
             /\ proj.statistics.byStudyType = StatedCounts("studyType")
        /\ proj.groupBy \in {Str("status"), Str("phase"), Str("studyType"),
                             Str("condition"), Str("sponsor")} =>
             proj.statistics = StatedCounts(proj.groupBy.s)

\* The sum of the values of a group-count map.
RECURSIVE SumOfCounts(_)
SumOfCounts(groups) ==
    IF DOMAIN groups = {} THEN 0
    ELSE LET key == CHOOSE k \in DOMAIN groups : TRUE
         IN  groups[key].n + SumOfCounts([k \in DOMAIN groups \ {key} |-> groups[k]])

\* Every value of a group-count map is a number, and they sum to n.
CountsSumTo(groups, n) ==
    /\ \A k \in DOMAIN groups : groups[k].t = "number"
    /\ SumOfCounts(groups) = n

\* C27: in every group-count map of get_trial_statistics each fetched study
\* is counted once: the counts sum to analyzedStudies, for every groupBy,
\* a name outside the schema included, and for records with missing or
\* empty fields.
C27_CountsSumToAnalyzedStudies ==
    StatisticsDone =>
        /\ proj.analyzedStudies = Len(proj.studies)
        /\ IF Truthy(proj.groupBy)
           THEN CountsSumTo(proj.statistics, proj.analyzedStudies)
           ELSE /\ CountsSumTo(proj.statistics.byStatus, proj.analyzedStudies)
                /\ CountsSumTo(proj.statistics.byPhase, proj.analyzedStudies)
                /\ CountsSumTo(proj.statistics.byStudyType, proj.analyzedStudies)

====
